---- MODULE Spec2Model ----
(***************************************************************************)
(* Stockify: the forecast core (models/hybrid_predictor.py,                *)
(* models/sentiment_analyzer.py, models/historical_predictor.py,           *)
(* models/currency_utils.py).                                              *)
(*                                                                         *)
(* Python floats are modelled as exact rationals [n, d] (d > 0, lowest     *)
(* terms); binary round-off of the float arithmetic is not modelled.       *)
(* round(x, k) is modelled as round-half-even of the exact value.          *)
(***************************************************************************)
EXTENDS Integers, Sequences, FiniteSets, TLC

VARIABLES
    risk_in,    \* arguments of one calculate_risk_score call
    risk_out,   \* its return value
    comb_in,    \* arguments of one combine_predictions call
    comb_out,   \* its return value
    hist_in,    \* what one HistoricalPredictor.predict call meets: its
                \* arguments, the price history and the trained network
    hist_out,   \* its return value
    sent_in,    \* what one SentimentAnalyzer.analyze call meets: the symbol,
                \* the news list, the price history and the quoted price
    sent_out,   \* its return value
    hy_in,      \* what one HybridPredictor.predict call meets
    hy_pc,      \* where that call stands
    hy_local,   \* its local variables so far
    hy_steps,   \* the operations it has performed so far
    hy_out,     \* its return value
    fn_in,      \* arguments of one call of a function studied by itself
    fn_out,     \* its return value
    seq_in,     \* what one HistoricalPredictor.predict call meets, row by row
    seq_pc,     \* where that call stands
    seq_local,  \* its local variables so far
    seq_out,    \* its return value
    USD_TO_INR_RATE,    \* currency_utils.USD_TO_INR_RATE
    LAST_RATE_UPDATE,   \* currency_utils.LAST_RATE_UPDATE
    clock,      \* what datetime.now() returns, in hours
    rate_pc,    \* where each get_usd_to_inr_rate caller stands
    rate_local, \* each caller's local variables
    rate_ret,   \* each caller's return value
    fetched     \* every value fetch_live_exchange_rate has returned so far

riskVars == <<risk_in, risk_out>>
combVars == <<comb_in, comb_out>>
histVars == <<hist_in, hist_out>>
sentVars == <<sent_in, sent_out>>
hyVars == <<hy_in, hy_pc, hy_local, hy_steps, hy_out>>
fnVars == <<fn_in, fn_out>>
seqVars == <<seq_in, seq_pc, seq_local, seq_out>>
rateVars == <<USD_TO_INR_RATE, LAST_RATE_UPDATE, clock, rate_pc, rate_local, rate_ret, fetched>>
vars == <<riskVars, combVars, histVars, sentVars, hyVars, fnVars, seqVars, rateVars>>

\* A call that has not returned yet.
Pending == [tag |-> "pending"]

-----------------------------------------------------------------------------
(* Exact rational arithmetic standing for Python float arithmetic.         *)

RECURSIVE GCD(_, _)
GCD(a, b) == IF b = 0 THEN a ELSE GCD(b, a % b)

IAbs(x) == IF x < 0 THEN -x ELSE x

Rat(n, d) ==
    LET s == IF d < 0 THEN -1 ELSE 1
        g == GCD(IAbs(n), IAbs(d))
    IN  [n |-> (s * n) \div g, d |-> (s * d) \div g]

I(k) == [n |-> k, d |-> 1]

\* Sums go over the least common denominator and products cancel crosswise
\* first, which keeps the intermediate integers small.
RAdd(a, b) ==
    LET g == GCD(a.d, b.d)
    IN  Rat(a.n * (b.d \div g) + b.n * (a.d \div g), (a.d \div g) * b.d)
RNeg(a) == [n |-> -a.n, d |-> a.d]
RSub(a, b) == RAdd(a, RNeg(b))
RMul(a, b) ==
    LET g1 == GCD(IAbs(a.n), b.d)
        g2 == GCD(IAbs(b.n), a.d)
    IN  Rat((a.n \div g1) * (b.n \div g2), (a.d \div g2) * (b.d \div g1))
RDiv(a, b) == RMul(a, Rat(b.d, b.n))
RLt(a, b) == a.n * b.d < b.n * a.d
RLe(a, b) == a.n * b.d <= b.n * a.d
RGt(a, b) == RLt(b, a)
RGe(a, b) == RLe(b, a)
RAbs(a) == [n |-> IAbs(a.n), d |-> a.d]
\* Python's min(a, b) and max(a, b): the first argument wins a tie.
RMin(a, b) == IF RLt(b, a) THEN b ELSE a
RMax(a, b) == IF RGt(b, a) THEN b ELSE a

\* round(x): to the nearest integer, ties to the even one.
RoundHalfEven(a) ==
    LET q == a.n \div a.d
        r == a.n % a.d
    IN  IF 2 * r < a.d THEN q
        ELSE IF 2 * r > a.d THEN q + 1
        ELSE IF q % 2 = 0 THEN q ELSE q + 1

\* round(x, 2): the whole part is set aside before scaling, which leaves
\* the parity of the scaled value, and so the tie rule, unchanged.
Round2(a) ==
    LET q == a.n \div a.d
        r == Rat(a.n % a.d, a.d)
    IN  Rat(q * 100 + RoundHalfEven(RMul(r, I(100))), 100)

RECURSIVE SumSeq(_)
SumSeq(s) == IF s = <<>> THEN I(0) ELSE RAdd(Head(s), SumSeq(Tail(s)))

-----------------------------------------------------------------------------
(* HybridPredictor.calculate_risk_score                                    *)

MaeRiskCap == 30
PriceRiskCap == 25

risk_band(total_risk) ==
    IF RLt(total_risk, I(25)) THEN
        [risk_level |-> "Low Risk", recommendation |-> "Strong Buy",
         risk_color |-> "#10b981"]
    ELSE IF RLt(total_risk, I(40)) THEN
        [risk_level |-> "Low-Medium Risk", recommendation |-> "Buy",
         risk_color |-> "#22c55e"]
    ELSE IF RLt(total_risk, I(55)) THEN
        [risk_level |-> "Medium Risk", recommendation |-> "Hold",
         risk_color |-> "#f59e0b"]
    ELSE IF RLt(total_risk, I(70)) THEN
        [risk_level |-> "Medium-High Risk", recommendation |-> "Sell",
         risk_color |-> "#f97316"]
    ELSE
        [risk_level |-> "High Risk", recommendation |-> "Strong Sell",
         risk_color |-> "#ef4444"]

\* historical_result and sentiment_result are given by the fields the
\* function reads: mae, sentiment_score, confidence.
calculate_risk_score(mae, sentiment_score, confidence, price_change_percent) ==
    LET mae_risk == RMin(RMul(mae, I(10)), I(MaeRiskCap))
        sentiment_risk == RDiv(RAbs(RSub(I(50), sentiment_score)), I(2))
        volatility == RAbs(price_change_percent)
        volatility_risk == RMin(RMul(volatility, I(2)), I(PriceRiskCap))
        confidence_risk == RDiv(RSub(I(100), confidence), I(5))
        risk_factors == << <<"Model Accuracy Risk", mae_risk>>,
                           <<"Sentiment Volatility", sentiment_risk>>,
                           <<"Price Volatility", volatility_risk>>,
                           <<"Market Uncertainty", confidence_risk>> >>
        total_risk == SumSeq([i \in 1..4 |-> risk_factors[i][2]])
        band == risk_band(total_risk)
    IN  [tag |-> "dict",
         risk_score |-> Round2(total_risk),
         risk_level |-> band.risk_level,
         recommendation |-> band.recommendation,
         risk_color |-> band.risk_color,
         risk_factors |-> [i \in 1..4 |->
                             <<risk_factors[i][1], Round2(risk_factors[i][2])>>]]

\* Arguments the risk scorer is exercised with.  MAE is a mean of absolute
\* errors (>= 0); the other three are whatever the caller passes in the
\* result dictionaries.
RiskMaeValues ==
    {Rat(0, 1), Rat(4996, 10000), Rat(1, 2), Rat(2, 1), Rat(7, 2), Rat(50, 1)}
RiskScoreValues == {I(-20), I(0), I(10), I(50), I(85), I(100), I(200)}
RiskConfidenceValues == {I(-50), I(0), I(30), I(62), I(95), I(100), I(150)}
RiskChangeValues == {I(-40), Rat(-5, 2), I(0), Rat(3, 1), Rat(25, 2), I(40)}

RiskInputs ==
    [mae : RiskMaeValues, sentiment_score : RiskScoreValues,
     confidence : RiskConfidenceValues, price_change_percent : RiskChangeValues]

CalculateRiskScore ==
    /\ risk_out = Pending
    /\ risk_out' = calculate_risk_score(risk_in.mae, risk_in.sentiment_score,
                                        risk_in.confidence,
                                        risk_in.price_change_percent)
    /\ UNCHANGED <<fnVars, seqVars, rateVars, risk_in, combVars, histVars, sentVars, hyVars>>

-----------------------------------------------------------------------------
(* HybridPredictor.combine_predictions                                     *)

MaxCurveLen == 2

\* Lines 23-38: the two weights before the empty-curve cases are looked at.
ensemble_weights_unnormalised(historical_mae, confidence) ==
    LET historical_accuracy == RDiv(I(1), RAdd(I(1), historical_mae))
        sentiment_confidence == RDiv(confidence, I(100))
    IN  [historical_weight |-> historical_accuracy,
         sentiment_weight |-> sentiment_confidence]

ensemble_weights(historical_mae, confidence) ==
    LET historical_accuracy == RDiv(I(1), RAdd(I(1), historical_mae))
        sentiment_confidence == RDiv(confidence, I(100))
        total_weight == RAdd(historical_accuracy, sentiment_confidence)
    IN  IF RGt(total_weight, I(0)) THEN
            [historical_weight |-> RDiv(historical_accuracy, total_weight),
             sentiment_weight |-> RDiv(sentiment_confidence, total_weight)]
        ELSE
            [historical_weight |-> Rat(7, 10), sentiment_weight |-> Rat(3, 10)]

Min(a, b) == IF a < b THEN a ELSE b

\* Lines 54-58 with the two weights exchanged.
weighted_curve_swapped(hp, sp, hw, sw) ==
    [i \in 1..Min(Len(hp), Len(sp)) |->
        Round2(RAdd(RMul(hp[i], sw), RMul(sp[i], hw)))]

\* Lines 54-58: the index-wise weighted average, rounded to 2 decimals.
weighted_curve(hp, sp, hw, sw) ==
    [i \in 1..Min(Len(hp), Len(sp)) |->
        Round2(RAdd(RMul(hp[i], hw), RMul(sp[i], sw)))]

combine_predictions(historical_mae, confidence, historical_predictions, sentiment_predictions) ==
    LET w == ensemble_weights(historical_mae, confidence)
    IN  IF historical_predictions = <<>> /\ sentiment_predictions = <<>> THEN
            [predictions |-> <<>>,
             historical_weight |-> w.historical_weight,
             sentiment_weight |-> w.sentiment_weight]
        ELSE IF historical_predictions = <<>> THEN
            [predictions |-> sentiment_predictions,
             historical_weight |-> I(0), sentiment_weight |-> I(1)]
        ELSE IF sentiment_predictions = <<>> THEN
            [predictions |-> historical_predictions,
             historical_weight |-> I(1), sentiment_weight |-> I(0)]
        ELSE
            [predictions |-> weighted_curve(historical_predictions,
                                            sentiment_predictions,
                                            w.historical_weight,
                                            w.sentiment_weight),
             historical_weight |-> w.historical_weight,
             sentiment_weight |-> w.sentiment_weight]

CurvePrices == {I(100), Rat(10133, 100)}
Curves == UNION {[1..k -> CurvePrices] : k \in 0..MaxCurveLen}
CombMaeValues == {I(0), Rat(1, 3), Rat(5, 2), I(40)}
CombConfidenceValues == {I(0), I(30), Rat(125, 2), I(95), I(150)}

CombInputs ==
    [mae : CombMaeValues, confidence : CombConfidenceValues,
     historical_predictions : Curves, sentiment_predictions : Curves]

CombinePredictions ==
    /\ comb_out = Pending
    /\ comb_out' = [tag |-> "tuple"] @@
                   combine_predictions(comb_in.mae, comb_in.confidence,
                                       comb_in.historical_predictions,
                                       comb_in.sentiment_predictions)
    /\ UNCHANGED <<fnVars, seqVars, rateVars, riskVars, comb_in, histVars, sentVars, hyVars>>

-----------------------------------------------------------------------------
(* models/currency_utils.py: price conversion.  A symbol is the pair       *)
(* <<stem, suffix>>, e.g. <<"TCS", ".NS">> for "TCS.NS".                   *)

Upper(str) ==
    CASE str = ".ns" -> ".NS"
      [] str = "tcs" -> "TCS"
      [] str = "aapl" -> "AAPL"
      [] OTHER -> str

is_indian_stock(symbol) == Upper(symbol[2]) \in {".NS", ".BO", ".BSE", ".NSE"}

\* rate is what get_usd_to_inr_rate() returns during the call.
convert_price_to_inr(price, symbol, rate) ==
    IF is_indian_stock(symbol) THEN price ELSE RMul(price, rate)

convert_prices_array_to_inr(prices, symbol, rate) ==
    IF is_indian_stock(symbol) THEN prices
    ELSE [i \in 1..Len(prices) |-> RMul(prices[i], rate)]

Symbols == {<<"TCS", ".NS">>, <<"AAPL", "">>}
\* A live rate passes the sanity check 70 < rate < 100; 83.0 is the fallback.
UsdInrRates == {I(83), Rat(169, 2)}

-----------------------------------------------------------------------------
(* HistoricalPredictor.  Dates are day numbers.                            *)

MaxHistoryBars == 84
MaxDays == 2
Lookback == 50
SequenceLength == 30

Max(a, b) == IF a > b THEN a ELSE b

\* prepare_features: the number of rows dropna() keeps.  The widest rolling
\* window is the 50-bar moving average, undefined on the first 49 bars.
prepare_features(bars) == Max(0, bars - (Lookback - 1))

\* create_sequences with the loop starting one row early.
create_sequences_early(rows, sequence_length) ==
    Max(0, rows - (sequence_length - 1))

\* create_sequences: the number of windows, one per i in
\* range(sequence_length, len(data)).
create_sequences(rows, sequence_length) == Max(0, rows - sequence_length)

\* MinMaxScaler.inverse_transform of the Close column.
inverse_transform(scaled, close_min, close_max) ==
    LET range == IF close_max = close_min THEN I(1)
                 ELSE RSub(close_max, close_min)
    IN  RAdd(RMul(scaled, range), close_min)

NoneValue == [tag |-> "None"]
Raised(what) == [tag |-> "raised", message |-> what]

\* The body of predict's try block: a result dictionary, NoneValue for an
\* early return, or Raised(..) where a statement raises.
predict_body(call) ==
    LET rows == prepare_features(call.bars)
        windows == create_sequences(rows, SequenceLength)
        split == (8 * windows) \div 10
        n_train == split
        n_test == windows - split
        predictions_denorm ==
            [i \in 1..call.days |->
                inverse_transform(call.net_out[i], call.close_min, call.close_max)]
        current_price == call.last_close
        mae == call.mae
        confidence ==
            IF RGt(current_price, I(0)) THEN
                RMax(I(0), RMin(I(100),
                     RMul(RSub(I(1), RDiv(mae, current_price)), I(100))))
            ELSE I(50)
    IN  IF ~call.fetch_ok THEN Raised("history")
        ELSE IF call.bars = 0 THEN NoneValue
        ELSE IF rows = 0 THEN Raised("fit_transform")
        ELSE IF windows = 0 THEN NoneValue
        ELSE IF n_train = 0 \/ ~call.fit_ok THEN Raised("fit")
        ELSE
            [tag |-> "dict",
             success |-> TRUE,
             prediction_dates |-> [i \in 1..call.days |-> call.last_date + i],
             predictions |-> convert_prices_array_to_inr(predictions_denorm,
                                                         call.symbol, call.usd_inr),
             mae |-> convert_price_to_inr(mae, call.symbol, call.usd_inr),
             confidence |-> confidence,
             current_price |-> convert_price_to_inr(current_price, call.symbol,
                                                    call.usd_inr),
             n_train |-> n_train,
             n_test |-> n_test,
             currency |-> "INR"]

\* predict without its except clause: what is raised leaves the method.
historical_predict_uncaught(call) == predict_body(call)

\* HistoricalPredictor.predict: "except Exception" returns None.
historical_predict(call) ==
    LET r == predict_body(call)
    IN  IF r.tag = "raised" THEN NoneValue ELSE r

\* The network's scaled outputs and the scaled-unit MAE it is evaluated to.
NetOutputs == {Rat(1, 2), Rat(11, 10)}
HistMaeValues == {I(0), Rat(1, 20)}
HistBarCounts ==
    {0, 1, Lookback - 1, Lookback, Lookback + 1} \cup
    ((Lookback + SequenceLength - 2)..MaxHistoryBars)

HistInputs ==
    UNION {[symbol : Symbols, usd_inr : {I(83)}, bars : HistBarCounts,
            days : {d}, net_out : [1..d -> NetOutputs],
            fetch_ok : BOOLEAN, fit_ok : BOOLEAN,
            close_min : {I(90)}, close_max : {I(110)},
            last_close : {I(0), I(100)}, last_date : {100},
            mae : HistMaeValues]
           : d \in 1..MaxDays}

HistoricalPredict ==
    /\ hist_out = Pending
    /\ hist_out' = historical_predict(hist_in)
    /\ UNCHANGED <<fnVars, seqVars, rateVars, riskVars, combVars, hist_in, sentVars, hyVars>>

-----------------------------------------------------------------------------
(* SentimentAnalyzer                                                       *)
(*                                                                         *)
(* The 3-month price history is given by what analyze reads of it: its     *)
(* length (bars), the closes at iloc[0], iloc[-20], iloc[-10], iloc[-5]    *)
(* and iloc[-1], the standard deviation and the 10-day mean of its daily   *)
(* returns (in percent), and the mean volume overall and of the last 5     *)
(* bars.  An article is given by the polarity TextBlob finds in its title. *)

MaxArticles == 2
MaxSentimentBars == 63
ForecastDays == 14

\* round(x, 0) and round(x, 3)
Round0(a) == I(RoundHalfEven(a))
Round3(a) == Rat(RoundHalfEven(RMul(a, I(1000))), 1000)

\* x ** 0.5 to two decimals.
RSqrt(a) ==
    LET k == (a.n * 10000) \div a.d
    IN  Rat(CHOOSE r \in 0..(k + 1) : r * r <= k /\ (r + 1) * (r + 1) > k, 100)

categorize_sentiment(polarity) ==
    IF RGt(polarity, Rat(4, 10)) THEN "Very Positive"
    ELSE IF RGt(polarity, Rat(15, 100)) THEN "Positive"
    ELSE IF RGt(polarity, Rat(-15, 100)) THEN "Neutral"
    ELSE IF RGt(polarity, Rat(-4, 10)) THEN "Negative"
    ELSE "Very Negative"

\* ((current - base) / base) * 100 if base > 0 else 0
percent_change(current, base) ==
    IF RGt(base, I(0)) THEN RMul(RDiv(RSub(current, base), base), I(100))
    ELSE I(0)

\* Lines 263-295: price, performance, volatility, momentum, volume trend.
performance(call) ==
    IF call.bars > 20 THEN
        [current_price |-> call.last,
         price_change_1w |-> percent_change(call.last, call.m5),
         price_change_1m |-> percent_change(call.last, call.m20),
         price_change_3m |-> percent_change(call.last, call.first),
         volatility |-> call.volatility,
         recent_returns |-> call.recent_returns,
         volume_trend |-> IF RGt(call.avg_volume, I(0))
                          THEN RSub(RDiv(call.recent_volume, call.avg_volume), I(1))
                          ELSE I(0),
         numpy_price |-> TRUE]
    ELSE
        [current_price |-> call.info_price,
         price_change_1w |-> I(0),
         price_change_1m |-> I(0),
         price_change_3m |-> I(0),
         volatility |-> I(5),
         recent_returns |-> I(0),
         volume_trend |-> I(0),
         numpy_price |-> FALSE]

weighted_performance(p) ==
    RAdd(RAdd(RMul(p.price_change_1w, Rat(5, 10)),
              RMul(p.price_change_1m, Rat(3, 10))),
         RMul(p.price_change_3m, Rat(2, 10)))

\* Lines 303-320.
base_sentiment(wp) ==
    IF RGt(wp, I(15)) THEN Rat(7, 10)
    ELSE IF RGt(wp, I(5)) THEN Rat(4, 10)
    ELSE IF RGt(wp, I(0)) THEN Rat(15, 100)
    ELSE IF RGt(wp, I(-5)) THEN Rat(-15, 100)
    ELSE IF RGt(wp, I(-15)) THEN Rat(-4, 10)
    ELSE Rat(-7, 10)

\* max(-1, min(1, x)) without the clamp.
clamp_polarity_missing(x) == x

\* max(-1, min(1, x))
clamp_polarity(x) == RMax(I(-1), RMin(I(1), x))

\* Lines 322-337: the Path B polarity.
final_sentiment_b(p) ==
    LET momentum_adjustment ==
            RMin(RMax(RMul(p.recent_returns, Rat(2, 100)), Rat(-2, 10)), Rat(2, 10))
        volatility_penalty == RMin(RMul(p.volatility, Rat(15, 1000)), Rat(25, 100))
        volume_adjustment ==
            IF RGt(p.price_change_1w, I(0)) /\ RGt(p.volume_trend, I(0)) THEN Rat(1, 10)
            ELSE IF RLt(p.price_change_1w, I(0)) /\ RGt(p.volume_trend, I(0))
                 THEN Rat(-1, 10)
            ELSE I(0)
    IN  clamp_polarity(RAdd(RSub(RAdd(base_sentiment(weighted_performance(p)),
                                      momentum_adjustment),
                                 volatility_penalty),
                            volume_adjustment))

\* Lines 538-547: the Path A polarity.
final_sentiment_a(p, avg_sentiment) ==
    LET performance_adjustment == RMul(weighted_performance(p), Rat(15, 1000))
        adjusted_sentiment == RAdd(RMul(avg_sentiment, Rat(6, 10)),
                                   RMul(performance_adjustment, Rat(4, 10)))
        volatility_penalty == RMin(RMul(p.volatility, Rat(15, 1000)), Rat(25, 100))
        momentum_adjustment ==
            RMin(RMax(RMul(p.recent_returns, Rat(2, 100)), Rat(-15, 100)), Rat(15, 100))
    IN  clamp_polarity(RSub(RAdd(adjusted_sentiment, momentum_adjustment),
                            volatility_penalty))

\* The vote by the sign of x alone.
threshold_vote_by_sign(x, hi, lo, weight) ==
    IF RGt(x, I(0)) THEN <<"positive", weight>>
    ELSE IF RLt(x, I(0)) THEN <<"negative", weight>>
    ELSE <<"neutral", weight>>

\* One indicator: its class, by two thresholds, and its weight.
threshold_vote(x, hi, lo, weight) ==
    IF RGt(x, hi) THEN <<"positive", weight>>
    ELSE IF RLt(x, lo) THEN <<"negative", weight>>
    ELSE <<"neutral", weight>>

volatility_vote(volatility, wp, weight) ==
    IF RLt(volatility, Rat(2, 100)) THEN <<"neutral", weight>>
    ELSE IF RGt(volatility, Rat(5, 100)) THEN
        IF RGt(wp, I(0)) THEN <<"positive", weight>> ELSE <<"negative", weight>>
    ELSE <<"neutral", weight>>

\* hist['Close'].tail(10): momentum between its first and last close.
momentum_10d(call) == percent_change(call.last, call.m10)

\* Lines 342-418: the five Path B indicators.
indicators_b(call, p) ==
    LET wp == weighted_performance(p)
        volume_ratio == IF RGt(call.avg_volume, I(0))
                        THEN RDiv(call.recent_volume, call.avg_volume)
                        ELSE I(1)
    IN  << threshold_vote(p.price_change_1w, I(2), I(-2), Rat(25, 100)),
           threshold_vote(p.price_change_1m, I(5), I(-5), Rat(20, 100)),
           volatility_vote(p.volatility, wp, Rat(15, 100)),
           threshold_vote(momentum_10d(call), I(1), I(-1), Rat(20, 100)),
           IF RGt(volume_ratio, Rat(12, 10)) THEN
               IF RGt(wp, I(0)) THEN <<"positive", Rat(20, 100)>>
               ELSE <<"negative", Rat(20, 100)>>
           ELSE <<"neutral", Rat(20, 100)>> >>

\* Lines 588-660: the article vote and the four Path A indicators.
indicators_a(call, p, avg_sentiment) ==
    LET wp == weighted_performance(p)
        news_weight == RMul(RMin(Rat(Len(call.news), 20), I(1)), Rat(4, 10))
    IN  << threshold_vote(avg_sentiment, Rat(1, 10), Rat(-1, 10), news_weight),
           threshold_vote(p.price_change_1w, I(2), I(-2), Rat(15, 100)),
           threshold_vote(p.price_change_1m, I(5), I(-5), Rat(15, 100)),
           volatility_vote(p.volatility, wp, Rat(10, 100)),
           threshold_vote(momentum_10d(call), I(1), I(-1), Rat(10, 100)) >>

class_score(indicators, class) ==
    SumSeq([i \in 1..Len(indicators) |->
              IF indicators[i][1] = class THEN indicators[i][2] ELSE I(0)])

class_count(indicators, class) ==
    Cardinality({i \in 1..Len(indicators) : indicators[i][1] = class})

\* The vote with a tie going to the positive class.
overall_sentiment_ties_positive(indicators) ==
    LET positive_score == class_score(indicators, "positive")
        negative_score == class_score(indicators, "negative")
        neutral_score == class_score(indicators, "neutral")
    IN  IF RGe(positive_score, negative_score) /\ RGe(positive_score, neutral_score)
        THEN "Positive"
        ELSE IF RGt(negative_score, positive_score)
                /\ RGt(negative_score, neutral_score)
        THEN "Negative"
        ELSE "Neutral"

\* Lines 440-446 and 682-688.
overall_sentiment(indicators) ==
    LET positive_score == class_score(indicators, "positive")
        negative_score == class_score(indicators, "negative")
        neutral_score == class_score(indicators, "neutral")
    IN  IF RGt(positive_score, negative_score) /\ RGt(positive_score, neutral_score)
        THEN "Positive"
        ELSE IF RGt(negative_score, positive_score)
                /\ RGt(negative_score, neutral_score)
        THEN "Negative"
        ELSE "Neutral"

\* Lines 449 and 691 without the clamp of the next line.
sentiment_score_unclamped(indicators) ==
    RAdd(RMul(RSub(class_score(indicators, "positive"),
                   class_score(indicators, "negative")), I(100)), I(50))

\* Lines 449-450 and 691-692.
sentiment_score_of(indicators) ==
    RMax(I(0), RMin(I(100),
        RAdd(RMul(RSub(class_score(indicators, "positive"),
                       class_score(indicators, "negative")), I(100)), I(50))))

\* for day in range(1, 15): current_price * (1 + total_impact * (1 - day * decay)),
\* each point rounded to 2 decimals.  (The set constructor binds the two
\* arguments to their values, so they are computed once and not per day.)
decayed_curve(current_price, total_impact, decay) ==
    LET curve(price, impact) ==
            [day \in 1..ForecastDays |->
                Round2(RMul(price,
                            RAdd(I(1), RMul(impact,
                                            RSub(I(1), RMul(I(day), decay))))))]
    IN  CHOOSE c \in {curve(price, impact) :
                        price \in {current_price}, impact \in {total_impact}} : TRUE

\* Lines 454-455 and 696-697.
sentiment_impact(sentiment_score) ==
    RMul(RDiv(RSub(sentiment_score, I(50)), I(50)), Rat(8, 100))

\* Lines 456 and 698.
momentum_impact(wp) == RMul(RDiv(wp, I(100)), Rat(2, 100))

\* Lines 454-457 and 696-699.
score_impact(sentiment_score, wp) ==
    RAdd(sentiment_impact(sentiment_score), momentum_impact(wp))

\* Lines 553-557.
news_impact_total(p, avg_sentiment) ==
    RAdd(RAdd(RMul(avg_sentiment, Rat(5, 100)),
              RMul(RDiv(RAdd(p.price_change_1w, p.price_change_1m), I(2)),
                   Rat(1, 100))),
         RMul(RNeg(p.volatility), Rat(2, 100)))

\* Lines 471-475 without the clamp of line 476.
confidence_b_unclamped(bars, p) ==
    LET data_confidence == RMin(RMul(Rat(bars, 120), I(100)), I(100))
        volatility_confidence == RMax(I(0), RSub(I(100), RMul(p.volatility, I(8))))
        performance_confidence == RSub(I(100), RAbs(weighted_performance(p)))
    IN  RAdd(RAdd(RMul(data_confidence, Rat(4, 10)),
                  RMul(volatility_confidence, Rat(4, 10))),
             RMul(performance_confidence, Rat(2, 10)))

\* Lines 470-476.
confidence_b(bars, p) ==
    LET data_confidence == RMin(RMul(Rat(bars, 120), I(100)), I(100))
        volatility_confidence == RMax(I(0), RSub(I(100), RMul(p.volatility, I(8))))
        performance_confidence == RSub(I(100), RAbs(weighted_performance(p)))
    IN  RMax(I(30), RMin(I(85),
            RAdd(RAdd(RMul(data_confidence, Rat(4, 10)),
                      RMul(volatility_confidence, Rat(4, 10))),
                 RMul(performance_confidence, Rat(2, 10)))))

\* Lines 572-582.
confidence_a(sentiments, p) ==
    LET k == Len(sentiments)
        avg_sentiment == RDiv(SumSeq(sentiments), I(k))
        sentiment_std ==
            RSqrt(RDiv(SumSeq([i \in 1..k |->
                                 RMul(RSub(sentiments[i], avg_sentiment),
                                      RSub(sentiments[i], avg_sentiment))]),
                       I(k)))
        article_confidence == RMin(RMul(Rat(k, 20), I(100)), I(100))
        consistency_confidence == RMax(I(0), RMul(RSub(I(1), sentiment_std), I(100)))
        volatility_confidence == RMax(I(0), RSub(I(100), RMul(p.volatility, I(8))))
    IN  RMax(I(40), RMin(I(95),
            RAdd(RAdd(RMul(article_confidence, Rat(4, 10)),
                      RMul(consistency_confidence, Rat(3, 10))),
                 RMul(volatility_confidence, Rat(3, 10)))))

Round2All(prices) == [i \in 1..Len(prices) |-> Round2(prices[i])]

\* What the two paths return alike (lines 478-498 and 707-728).
result_dict(call, p, indicators, final_sentiment, confidence, predictions_inr) ==
    LET sentiment_score == sentiment_score_of(indicators)
        wp == weighted_performance(p)
    IN  [tag |-> "dict",
         success |-> TRUE,
         overall_sentiment |-> overall_sentiment(indicators),
         sentiment_score |-> Round0(sentiment_score),
         polarity |-> Round3(final_sentiment),
         positive_count |-> class_count(indicators, "positive"),
         negative_count |-> class_count(indicators, "negative"),
         neutral_count |-> class_count(indicators, "neutral"),
         total_indicators |-> Len(indicators),
         confidence |-> Round2(confidence),
         current_price |-> Round2(convert_price_to_inr(p.current_price,
                                                       call.symbol, call.usd_inr)),
         predicted_change_percent |->
             Round2(RMul(score_impact(sentiment_score, wp), I(100))),
         predictions |-> Round2All(predictions_inr),
         currency |-> "INR",
         performance_1w |-> Round2(p.price_change_1w),
         performance_1m |-> Round2(p.price_change_1m),
         performance_3m |-> Round2(p.price_change_3m),
         volatility |-> Round2(p.volatility),
         sentiment_indicators |-> [i \in 1..Len(indicators) |-> indicators[i][1]]]

\* Lines 297-498: no articles.
analyze_path_b(call, p) ==
    LET indicators == indicators_b(call, p)
        sentiment_score == sentiment_score_of(indicators)
        predictions ==
            decayed_curve(p.current_price,
                          score_impact(sentiment_score, weighted_performance(p)),
                          Rat(4, 100))
    IN  IF call.bars = 0 THEN Raised("IndexError")
        ELSE result_dict(call, p, indicators, final_sentiment_b(p),
                         confidence_b(call.bars, p),
                         convert_prices_array_to_inr(predictions, call.symbol,
                                                     call.usd_inr))
             @@ [articles |-> 0]

\* Lines 500-728: articles present.  predictions_inr is taken at line 586,
\* before the second loop (lines 702-705) appends to predictions: for an
\* Indian symbol the conversion hands back the same list, which then holds
\* both curves; for a foreign symbol it is a new list holding the first.
analyze_path_a(call, p) ==
    LET sentiments == call.news
        avg_sentiment == RDiv(SumSeq(sentiments), I(Len(sentiments)))
        first_curve ==
            decayed_curve(p.current_price, news_impact_total(p, avg_sentiment),
                          Rat(3, 100))
        indicators == indicators_a(call, p, avg_sentiment)
        sentiment_score == sentiment_score_of(indicators)
        second_curve ==
            decayed_curve(p.current_price,
                          score_impact(sentiment_score, weighted_performance(p)),
                          Rat(4, 100))
        predictions_inr ==
            IF is_indian_stock(call.symbol) THEN first_curve \o second_curve
            ELSE convert_prices_array_to_inr(first_curve, call.symbol, call.usd_inr)
    IN  IF ~p.numpy_price /\ p.current_price = I(0) THEN Raised("ZeroDivisionError")
        ELSE IF call.bars = 0 THEN Raised("IndexError")
        ELSE result_dict(call, p, indicators,
                         final_sentiment_a(p, avg_sentiment),
                         confidence_a(sentiments, p), predictions_inr)
             @@ [articles |-> Len(sentiments), total_articles |-> Len(sentiments)]

\* SentimentAnalyzer.analyze: whatever is raised becomes {success: False}.
analyze(call) ==
    LET r == IF ~call.fetch_ok THEN Raised("history")
             ELSE IF call.news = <<>> THEN analyze_path_b(call, performance(call))
             ELSE analyze_path_a(call, performance(call))
    IN  IF r.tag = "raised"
        THEN [tag |-> "dict", success |-> FALSE, message |-> r.message]
        ELSE r

ArticlePolarities == {Rat(-4, 5), Rat(3, 5)}
NewsLists == UNION {[1..k -> ArticlePolarities] : k \in 0..MaxArticles}
BasePrices == {I(80), I(100), I(125)}
Volumes == {<<I(0), I(0)>>, <<I(100), I(100)>>, <<I(100), I(150)>>}

\* Histories of more than 20 bars.
LongHistories ==
    [bars : {21, MaxSentimentBars},
     first : {I(100), I(125)}, m20 : {I(80), I(125)}, m10 : {I(80), I(125)},
     m5 : BasePrices, last : {I(100)},
     volatility : {I(0), I(2), I(20)},
     recent_returns : {I(-15), Rat(1, 2), I(15)},
     volume : {<<I(100), I(100)>>, <<I(100), I(150)>>},
     info_price : {I(100)}]

\* Histories of at most 20 bars: only the last ten closes and the volumes
\* are read.  An empty history has no closes; one bar is its own tail.
ShortHistories ==
    [bars : {1}, first : {I(100)}, m20 : {I(100)}, m10 : {I(100)}, m5 : {I(100)},
     last : {I(100)}, volatility : {I(0)}, recent_returns : {I(0)},
     volume : Volumes, info_price : {I(0), I(100)}]
    \cup
    [bars : {12, 20}, first : {I(100)}, m20 : {I(100)}, m10 : BasePrices,
     m5 : {I(100)}, last : {I(100)}, volatility : {I(2)}, recent_returns : {I(1)},
     volume : Volumes, info_price : {I(0), I(100)}]
    \cup
    [bars : {0}, first : {I(0)}, m20 : {I(0)}, m10 : {I(0)}, m5 : {I(0)},
     last : {I(0)}, volatility : {I(0)}, recent_returns : {I(0)},
     volume : {<<I(0), I(0)>>}, info_price : {I(0), I(100)}]

\* A price that quadrupled within the last week of the history.
SteepHistories ==
    [bars : {MaxSentimentBars}, first : {I(25)}, m20 : {I(25)}, m10 : {I(25)},
     m5 : {I(25)}, last : {I(100)}, volatility : {I(2), I(20)},
     recent_returns : {I(15)}, volume : {<<I(100), I(100)>>, <<I(100), I(150)>>},
     info_price : {I(100)}]

\* Strictly increasing closes: a rise of 1/64 over the whole history (1/128
\* over the last 20 bars, 1/256 over the last 10, 1/512 over the last 5), and
\* a doubling (1/4, 1/8 and 1/16 over the last 20, 10 and 5 bars).
RisingHistories ==
    [bars : {MaxSentimentBars}, first : {Rat(6400, 65)}, m20 : {Rat(12800, 129)},
     m10 : {Rat(25600, 257)}, m5 : {Rat(51200, 513)}, last : {I(100)},
     volatility : {I(0), Rat(1, 100), I(2)}, recent_returns : {Rat(1, 100)},
     volume : {<<I(100), I(100)>>, <<I(100), I(150)>>}, info_price : {I(100)}]
    \cup
    [bars : {MaxSentimentBars}, first : {I(50)}, m20 : {I(80)},
     m10 : {Rat(800, 9)}, m5 : {Rat(1600, 17)}, last : {I(100)},
     volatility : {I(0), Rat(1, 100), I(2)}, recent_returns : {I(1)},
     volume : {<<I(100), I(100)>>, <<I(100), I(150)>>}, info_price : {I(100)}]

with_call(h, symbol, news, fetch_ok) ==
    [symbol |-> symbol, usd_inr |-> Rat(169, 2), fetch_ok |-> fetch_ok, news |-> news,
     bars |-> h.bars, first |-> h.first, m20 |-> h.m20, m10 |-> h.m10, m5 |-> h.m5,
     last |-> h.last, volatility |-> h.volatility,
     recent_returns |-> h.recent_returns,
     avg_volume |-> h.volume[1], recent_volume |-> h.volume[2],
     info_price |-> h.info_price]

SentInputs ==
    {with_call(h, sym, news, ok) :
        h \in LongHistories \cup SteepHistories \cup RisingHistories
              \cup ShortHistories,
        sym \in Symbols,
        news \in NewsLists, ok \in {TRUE}}
    \cup
    {with_call(h, sym, <<>>, FALSE) : h \in ShortHistories, sym \in Symbols}

Analyze ==
    /\ sent_out = Pending
    /\ sent_out' = analyze(sent_in)
    /\ UNCHANGED <<fnVars, seqVars, rateVars, riskVars, combVars, histVars, sent_in, hyVars>>

-----------------------------------------------------------------------------
(* HybridPredictor.predict, get_sector_analysis, explain_prediction        *)

PeerLimit == 2

sector_companies(sector) ==
    CASE sector = "Technology" ->
           << <<"TCS", ".NS">>, <<"INFY", ".NS">>, <<"WIPRO", ".NS">>,
              <<"AAPL", "">>, <<"MSFT", "">> >>
      [] sector = "Financial Services" ->
           << <<"HDFCBANK", ".NS">>, <<"ICICIBANK", ".NS">>, <<"SBIN", ".NS">>,
              <<"JPM", "">>, <<"BAC", "">> >>
      [] sector = "Healthcare" ->
           << <<"SUNPHARMA", ".NS">>, <<"DRREDDY", ".NS">>, <<"JNJ", "">>,
              <<"PFE", "">> >>
      [] sector = "Consumer Cyclical" ->
           << <<"MARUTI", ".NS">>, <<"TATAMOTORS", ".NS">>, <<"TSLA", "">>,
              <<"AMZN", "">> >>
      [] sector = "Energy" ->
           << <<"RELIANCE", ".NS">>, <<"ONGC", ".NS">>, <<"XOM", "">>,
              <<"CVX", "">> >>
      [] sector = "Industrials" ->
           << <<"LT", ".NS">>, <<"BHARTIARTL", ".NS">>, <<"BA", "">>,
              <<"CAT", "">> >>
      [] sector = "Basic Materials" ->
           << <<"TATASTEEL", ".NS">>, <<"HINDALCO", ".NS">>, <<"BHP", "">> >>
      [] sector = "Consumer Defensive" ->
           << <<"ITC", ".NS">>, <<"HINDUNILVR", ".NS">>, <<"PG", "">>,
              <<"KO", "">> >>
      [] sector = "Communication Services" ->
           << <<"BHARTIARTL", ".NS">>, <<"T", "">>, <<"VZ", "">>,
              <<"META", "">> >>
      [] sector = "Real Estate" ->
           << <<"DLF", ".NS">>, <<"GODREJPROP", ".NS">>, <<"AMT", "">> >>
      [] sector = "Utilities" ->
           << <<"NTPC", ".NS">>, <<"POWERGRID", ".NS">>, <<"NEE", "">> >>
      [] OTHER -> <<>>

\* Lines 158-190: the quick-mode entry of one peer from its 3-day closes.
quick_peer(company_symbol, closes, rate) ==
    LET current_price == closes[Len(closes)]
        prev_close == IF Len(closes) >= 2 THEN closes[Len(closes) - 1]
                      ELSE current_price
        change_percent == percent_change(current_price, prev_close)
        start_price == closes[1]
        recent_change == percent_change(current_price, start_price)
        predicted_price ==
            IF RGt(start_price, I(0))
            THEN RMul(current_price,
                      RAdd(I(1), RDiv(RMul(recent_change, Rat(1, 10)), I(100))))
            ELSE current_price
        predicted_change ==
            IF RGt(start_price, I(0)) THEN RMul(recent_change, Rat(1, 10)) ELSE I(0)
    IN  [symbol |-> company_symbol,
         current_price |-> Round2(convert_price_to_inr(current_price,
                                                       company_symbol, rate)),
         change_percent |-> Round2(change_percent),
         predicted_price |-> Round2(convert_price_to_inr(predicted_price,
                                                         company_symbol, rate)),
         predicted_change |-> Round2(predicted_change)]

\* What fetching the i-th listed company meets: the fetch raises, its
\* history is empty, or it has closes.
PeerRaises == [tag |-> "raise"]
PeerEmpty == [tag |-> "empty"]
PeerCloses(closes) == [tag |-> "closes", closes |-> closes]

RECURSIVE sector_loop(_, _, _, _, _)
sector_loop(self_symbol, companies, peer_env, rate, i) ==
    IF i > Len(companies) THEN <<>>
    ELSE
        LET rest == sector_loop(self_symbol, companies, peer_env, rate, i + 1)
        IN  IF companies[i] = self_symbol THEN rest
            ELSE IF peer_env[i].tag # "closes" THEN rest
            ELSE <<quick_peer(companies[i], peer_env[i].closes, rate)>> \o rest

\* get_sector_analysis(sector, skip_predictions=True)
get_sector_analysis(self_symbol, sector, peer_env, rate) ==
    LET companies == sector_companies(sector)
    IN  sector_loop(self_symbol,
                    SubSeq(companies, 1, Min(PeerLimit, Len(companies))),
                    peer_env, rate, 1)

\* explain_prediction: the sentences, each by the template chosen.
explain_prediction(historical_result, sentiment_result, price_change_percent) ==
    LET mae == historical_result.mae
        sentiment_score == sentiment_result.sentiment_score
        sentiment_category == sentiment_result.overall_sentiment
    IN  << IF RLt(mae, I(2)) THEN <<"high accuracy">>
           ELSE IF RLt(mae, I(5)) THEN <<"moderate accuracy">>
           ELSE <<"lower accuracy">>,
           IF RGe(sentiment_score, I(60))
           THEN <<sentiment_category, "positive news coverage driving optimism">>
           ELSE IF RGe(sentiment_score, I(40))
           THEN <<sentiment_category, "balanced news coverage">>
           ELSE <<sentiment_category, "negative news creating caution">>,
           IF RGt(price_change_percent, I(5)) THEN <<"strong upward trend">>
           ELSE IF RGt(price_change_percent, I(2)) THEN <<"moderate growth">>
           ELSE IF RGt(price_change_percent, I(-2)) THEN <<"stable prices">>
           ELSE IF RGt(price_change_percent, I(-5)) THEN <<"moderate decline">>
           ELSE <<"significant decline">>,
           <<"RSI">>, <<"MACD">>, <<"MA_50">> >>

RECURSIVE MinSeq(_)
MinSeq(q) == IF Len(q) = 1 THEN q[1] ELSE RMin(q[1], MinSeq(Tail(q)))
RECURSIVE MaxSeq(_)
MaxSeq(q) == IF Len(q) = 1 THEN q[1] ELSE RMax(q[1], MaxSeq(Tail(q)))

\* Line 324 with the error subtracted instead of discounted.
historical_confidence_linear(mae) == RMul(RSub(I(1), mae), I(100))

\* Line 324: (1 / (1 + mae)) * 100.
historical_confidence_of(mae) == RMul(RDiv(I(1), RAdd(I(1), mae)), I(100))

\* Lines 296-333: the combination and the figures derived from it.
combine_and_measure(historical_result, sentiment_result, today) ==
    LET c == combine_predictions(historical_result.mae, sentiment_result.confidence,
                                 historical_result.predictions,
                                 sentiment_result.predictions)
        combined_predictions == c.predictions
        current_price == historical_result.current_price
        avg_prediction ==
            IF Len(combined_predictions) > 0
            THEN RDiv(SumSeq(combined_predictions), I(Len(combined_predictions)))
            ELSE current_price
        price_change == RSub(avg_prediction, current_price)
        price_change_percent ==
            IF RGt(current_price, I(0))
            THEN RMul(RDiv(price_change, current_price), I(100))
            ELSE I(0)
        historical_confidence == historical_confidence_of(historical_result.mae)
        overall_confidence ==
            RAdd(RMul(historical_confidence, c.historical_weight),
                 RMul(sentiment_result.confidence, c.sentiment_weight))
    IN  [combined_predictions |-> combined_predictions,
         hist_weight |-> c.historical_weight,
         sent_weight |-> c.sentiment_weight,
         current_price |-> current_price,
         avg_prediction |-> avg_prediction,
         price_change |-> price_change,
         price_change_percent |-> price_change_percent,
         prediction_min |-> IF combined_predictions # <<>>
                            THEN MinSeq(combined_predictions) ELSE avg_prediction,
         prediction_max |-> IF combined_predictions # <<>>
                            THEN MaxSeq(combined_predictions) ELSE avg_prediction,
         overall_confidence |-> overall_confidence,
         prediction_dates |-> [i \in 1..Len(combined_predictions) |-> today + i]]

\* Lines 344-366.
hybrid_result(l) ==
    [tag |-> "dict",
     success |-> TRUE,
     current_price |-> l.current_price,
     predictions |-> l.combined_predictions,
     prediction_dates |-> l.prediction_dates,
     avg_prediction |-> Round2(l.avg_prediction),
     price_change |-> Round2(l.price_change),
     price_change_percent |-> Round2(l.price_change_percent),
     prediction_min |-> Round2(l.prediction_min),
     prediction_max |-> Round2(l.prediction_max),
     overall_confidence |-> Round2(l.overall_confidence),
     historical_weight |-> Round2(RMul(l.hist_weight, I(100))),
     sentiment_weight |-> Round2(RMul(l.sent_weight, I(100))),
     historical_mae |-> l.historical_result.mae,
     sentiment_score |-> l.sentiment_result.sentiment_score,
     sentiment_category |-> l.sentiment_result.overall_sentiment,
     historical_data |-> l.historical_result,
     sentiment_data |-> l.sentiment_result,
     risk_analysis |-> l.risk_analysis,
     explanations |-> l.explanations,
     sector |-> l.sector,
     sector_analysis |-> l.sector_analysis]

Failure(message) == [tag |-> "dict", success |-> FALSE, message |-> message]

\* The histories and news a hybrid call is exercised with.
HyHistories ==
    {[bars |-> 60, first |-> I(1), m20 |-> Rat(4, 5),
      m10 |-> Rat(4, 5), m5 |-> Rat(5, 4), last |-> I(1), volatility |-> I(2),
      recent_returns |-> I(15), volume |-> <<I(100), I(150)>>,
      info_price |-> I(1)],
     [bars |-> 0, first |-> I(0), m20 |-> I(0), m10 |-> I(0), m5 |-> I(0),
      last |-> I(0), volatility |-> I(0), recent_returns |-> I(0),
      volume |-> <<I(0), I(0)>>, info_price |-> I(1)]}
HyNews == {<<>>, <<Rat(3, 5)>>}
Sectors == {"Unknown", "Technology", "Energy"}
PeerEnvs ==
    {<<PeerRaises, PeerCloses(<<I(100), I(90), I(110)>>)>>,
     <<PeerCloses(<<I(0), I(50)>>), PeerEmpty>>,
     <<PeerCloses(<<I(100)>>), PeerCloses(<<I(100), I(90), I(110)>>)>>}

\* The route hands the symbol over as typed in the URL.
HySymbols == Symbols \cup {<<"tcs", ".ns">>}

HyInputs ==
    [symbol : HySymbols, usd_inr : {I(83)},
     days : (1..MaxDays) \cup {ForecastDays + 1},
     bars : {Lookback - 1, MaxHistoryBars}, fit_ok : BOOLEAN,
     net_out : NetOutputs, mae : {I(1)},
     history : HyHistories, news : HyNews, sent_fetch_ok : BOOLEAN,
     today : {100, 102},
     info_ok : BOOLEAN, sector : Sectors,
     peer_env : PeerEnvs]

\* The HistoricalPredictor.predict call of line 281.
hy_historical_call(call) ==
    [symbol |-> call.symbol, usd_inr |-> call.usd_inr, bars |-> call.bars,
     days |-> call.days, net_out |-> [i \in 1..call.days |-> call.net_out],
     fetch_ok |-> TRUE, fit_ok |-> call.fit_ok,
     close_min |-> Rat(9, 10), close_max |-> Rat(11, 10), last_close |-> I(1),
     last_date |-> 100, mae |-> call.mae]

\* The SentimentAnalyzer.analyze call of line 282.
hy_sentiment_call(call) ==
    [with_call(call.history, call.symbol, call.news, call.sent_fetch_ok)
        EXCEPT !.usd_inr = call.usd_inr]

\* Line 281.
HyHistorical ==
    /\ hy_pc = "historical"
    /\ hy_local' = [historical_result |->
                       historical_predict(hy_historical_call(hy_in))]
    /\ hy_steps' = hy_steps \cup {"historical"}
    /\ hy_pc' = "sentiment"
    /\ UNCHANGED <<fnVars, seqVars, rateVars, riskVars, combVars, histVars, sentVars, hy_in, hy_out>>

\* Line 282.
HySentiment ==
    /\ hy_pc = "sentiment"
    /\ hy_local' = hy_local @@
           [sentiment_result |->
               analyze(hy_sentiment_call(hy_in))]
    /\ hy_steps' = hy_steps \cup {"sentiment"}
    /\ hy_pc' = "check"
    /\ UNCHANGED <<fnVars, seqVars, rateVars, riskVars, combVars, histVars, sentVars, hy_in, hy_out>>

\* The early returns with the sentiment side tested first.
HyCheck_sentiment_first ==
    /\ hy_pc = "check"
    /\ IF ~hy_local.sentiment_result.success
       THEN /\ hy_out' = Failure("Sentiment analysis failed")
            /\ hy_pc' = "done"
       ELSE IF hy_local.historical_result.tag = "None"
               \/ ~hy_local.historical_result.success
       THEN /\ hy_out' = Failure("Historical prediction failed")
            /\ hy_pc' = "done"
       ELSE /\ hy_pc' = "combine"
            /\ UNCHANGED hy_out
    /\ UNCHANGED <<fnVars, seqVars, rateVars, riskVars, combVars, histVars, sentVars, hy_in, hy_local, hy_steps>>

\* Lines 284-294: the two early returns.
HyCheck ==
    /\ hy_pc = "check"
    /\ IF hy_local.historical_result.tag = "None"
          \/ ~hy_local.historical_result.success
       THEN /\ hy_out' = Failure("Historical prediction failed")
            /\ hy_pc' = "done"
       ELSE IF ~hy_local.sentiment_result.success
       THEN /\ hy_out' = Failure("Sentiment analysis failed")
            /\ hy_pc' = "done"
       ELSE /\ hy_pc' = "combine"
            /\ UNCHANGED hy_out
    /\ UNCHANGED <<fnVars, seqVars, rateVars, riskVars, combVars, histVars, sentVars, hy_in, hy_local, hy_steps>>

\* Lines 296-333.
HyCombine ==
    /\ hy_pc = "combine"
    /\ hy_local' = hy_local @@
           combine_and_measure(hy_local.historical_result,
                               hy_local.sentiment_result, hy_in.today)
    /\ hy_steps' = hy_steps \cup {"combine"}
    /\ hy_pc' = "risk"
    /\ UNCHANGED <<fnVars, seqVars, rateVars, riskVars, combVars, histVars, sentVars, hy_in, hy_out>>

\* Lines 335-337.
HyRisk ==
    /\ hy_pc = "risk"
    /\ hy_local' = hy_local @@
           [risk_analysis |->
               calculate_risk_score(hy_local.historical_result.mae,
                                    hy_local.sentiment_result.sentiment_score,
                                    hy_local.sentiment_result.confidence,
                                    hy_local.price_change_percent),
            explanations |->
               explain_prediction(hy_local.historical_result,
                                  hy_local.sentiment_result,
                                  hy_local.price_change_percent)]
    /\ hy_steps' = hy_steps \cup {"risk", "explain"}
    /\ hy_pc' = "sector"
    /\ UNCHANGED <<fnVars, seqVars, rateVars, riskVars, combVars, histVars, sentVars, hy_in, hy_out>>

\* Lines 339-342 and the except clause of lines 368-373: stock.info is read
\* inside predict's try block.
HySector ==
    /\ hy_pc = "sector"
    /\ hy_steps' = hy_steps \cup
          (IF hy_in.info_ok /\ hy_in.sector # "Unknown"
           THEN {"sector", "peers"} ELSE {"sector"})
    /\ IF ~hy_in.info_ok
       THEN /\ hy_out' = Failure("info")
            /\ hy_pc' = "done"
            /\ UNCHANGED hy_local
       ELSE /\ hy_local' = hy_local @@
                   [sector |-> hy_in.sector,
                    sector_analysis |->
                       IF hy_in.sector # "Unknown"
                       THEN get_sector_analysis(hy_in.symbol, hy_in.sector,
                                                hy_in.peer_env, hy_in.usd_inr)
                       ELSE <<>>]
            /\ hy_pc' = "return"
            /\ UNCHANGED hy_out
    /\ UNCHANGED <<fnVars, seqVars, rateVars, riskVars, combVars, histVars, sentVars, hy_in>>

\* Lines 344-366.
HyReturn ==
    /\ hy_pc = "return"
    /\ hy_out' = hybrid_result(hy_local)
    /\ hy_pc' = "done"
    /\ UNCHANGED <<fnVars, seqVars, rateVars, riskVars, combVars, histVars, sentVars, hy_in, hy_local, hy_steps>>

-----------------------------------------------------------------------------
(* Percentage changes relative to a base price                             *)

\* A float result: a number, or what numpy float64 division by zero gives.
Num(v) == [tag |-> "num", v |-> v]
NaN == [tag |-> "nan"]
Infinity(sign) == [tag |-> "inf", sign |-> sign]

\* a / b on numpy float64 scalars: no exception, nan for 0/0, inf otherwise.
numpy_div(a, b) ==
    IF b # I(0) THEN Num(RDiv(a, b))
    ELSE IF a = I(0) THEN NaN
    ELSE Infinity(IF RGt(a, I(0)) THEN 1 ELSE -1)

\* a / b on Python numbers.
python_div(a, b) ==
    IF b # I(0) THEN Num(RDiv(a, b)) ELSE Raised("ZeroDivisionError")

\* x * 100 and round(x, 2) of such a result.
times_100(x) == IF x.tag = "num" THEN Num(RMul(x.v, I(100))) ELSE x
round_2(x) == IF x.tag = "num" THEN Num(Round2(x.v)) ELSE x

\* app.py, get_stock_data: change_percent of the last close on the one
\* before it (on itself when there is one bar).
stock_data_change_percent(closes) ==
    LET current_price == closes[Len(closes)]
        prev_close == IF Len(closes) >= 2 THEN closes[Len(closes) - 1]
                      ELSE current_price
        change == RSub(current_price, prev_close)
    IN  round_2(times_100(numpy_div(change, prev_close)))

\* get_sector_analysis: change_percent and recent_change of one peer.
peer_change_percent(closes) ==
    LET current_price == closes[Len(closes)]
        prev_close == IF Len(closes) >= 2 THEN closes[Len(closes) - 1]
                      ELSE current_price
    IN  Num(percent_change(current_price, prev_close))

peer_recent_change(closes) == Num(percent_change(closes[Len(closes)], closes[1]))

\* analyze, lines 272-274: the change of the last close on an earlier one.
performance_change(closes) == Num(percent_change(closes[Len(closes)], closes[1]))

\* analyze, lines 565-568: the change of the mean of the news-based curve on
\* the current price, which is a numpy scalar when it was read from the
\* history and a Python number when it was read from the quote.
predicted_change_percent_568(avg_prediction, current_price, numpy_price) ==
    LET change == RSub(avg_prediction, current_price)
    IN  times_100(IF numpy_price THEN numpy_div(change, current_price)
                  ELSE python_div(change, current_price))

ChangeSites ==
    {"get_stock_data", "peer_change", "peer_recent", "performance",
     "predicted_change"}
ChangePrices == {I(0), I(90), I(100), I(110)}
ChangeCloses == [1..1 -> ChangePrices] \cup [1..2 -> ChangePrices]
ChangeInputs == [site : ChangeSites, closes : ChangeCloses, numpy_price : BOOLEAN]

\* The base price the site divides by.
change_base(call) ==
    IF call.site \in {"get_stock_data", "peer_change"}
    THEN (IF Len(call.closes) >= 2 THEN call.closes[Len(call.closes) - 1]
          ELSE call.closes[Len(call.closes)])
    ELSE IF call.site = "predicted_change" THEN call.closes[Len(call.closes)]
    ELSE call.closes[1]

percent_change_at(call) ==
    CASE call.site = "get_stock_data" -> stock_data_change_percent(call.closes)
      [] call.site = "peer_change" -> peer_change_percent(call.closes)
      [] call.site = "peer_recent" -> peer_recent_change(call.closes)
      [] call.site = "performance" -> performance_change(call.closes)
      [] call.site = "predicted_change" ->
            predicted_change_percent_568(call.closes[1],
                                         call.closes[Len(call.closes)],
                                         call.numpy_price)

PercentChange ==
    /\ fn_in.tag = "change"
    /\ fn_out = Pending
    /\ fn_out' = percent_change_at(fn_in)
    /\ UNCHANGED <<riskVars, combVars, histVars, sentVars, hyVars, fn_in, seqVars, rateVars>>

-----------------------------------------------------------------------------
(* HistoricalPredictor.prepare_features: the RSI column                    *)

MaxRsiBars == 52
RsiWindow == 14

\* delta.where(delta > 0, 0) and -delta.where(delta < 0, 0) at bar i; the
\* first bar has no delta and both give 0 there.
rsi_gain_term(closes, i) ==
    IF i >= 2 /\ RGt(closes[i], closes[i - 1])
    THEN RSub(closes[i], closes[i - 1]) ELSE I(0)
rsi_loss_term(closes, i) ==
    IF i >= 2 /\ RLt(closes[i], closes[i - 1])
    THEN RSub(closes[i - 1], closes[i]) ELSE I(0)

\* rolling(window=14).mean() of either column at bar i >= 14; the window
\* lo..hi is summed by halves.
RECURSIVE rolling_sum(_, _, _, _)
rolling_sum(gains, closes, lo, hi) ==
    IF lo = hi
    THEN (IF gains THEN rsi_gain_term(closes, lo) ELSE rsi_loss_term(closes, lo))
    ELSE LET mid == (lo + hi) \div 2
         IN  RAdd(rolling_sum(gains, closes, lo, mid),
                  rolling_sum(gains, closes, mid + 1, hi))
rolling_mean(gains, closes, i) ==
    RDiv(rolling_sum(gains, closes, i - RsiWindow + 1, i), I(RsiWindow))

\* Lines 31-36 at bar i.
rsi(closes, i) ==
    LET gain == rolling_mean(TRUE, closes, i)
        loss == rolling_mean(FALSE, closes, i)
        rs == RDiv(gain, IF loss = I(0) THEN Rat(1, 1000) ELSE loss)
    IN  RSub(I(100), RDiv(I(100), RAdd(I(1), rs)))

\* The RSI column of the rows dropna() keeps.
prepare_features_rsi(closes) ==
    [r \in 1..prepare_features(Len(closes)) |-> rsi(closes, r + Lookback - 1)]

\* Close series: constant, rising or falling by a fixed step, or alternating.
SeriesKinds == {"flat", "rising", "falling", "zigzag"}
close_series(kind, level, step, bars) ==
    [i \in 1..bars |->
        CASE kind = "flat" -> I(level)
          [] kind = "rising" -> I(level + step * i)
          [] kind = "falling" -> I(level + step * (bars - i))
          [] kind = "zigzag" -> I(level + step * (i % 2))]
RsiInputs ==
    [kind : SeriesKinds, level : {1, 100, 250}, step : {1, 2, 5},
     bars : (Lookback - 1)..MaxRsiBars]

PrepareFeaturesRsi ==
    /\ fn_in.tag = "rsi"
    /\ fn_out = Pending
    /\ fn_out' = [tag |-> "rsi",
                  RSI |-> prepare_features_rsi(
                              close_series(fn_in.kind, fn_in.level, fn_in.step,
                                           fn_in.bars))]
    /\ UNCHANGED <<riskVars, combVars, histVars, sentVars, hyVars, fn_in, seqVars, rateVars>>

-----------------------------------------------------------------------------
(* SentimentAnalyzer.analyze, Path B: performance to base polarity         *)

BandChanges == {I(-30), I(-15), I(-5), I(0), I(5), I(15), I(30)}
BandInputs ==
    [price_change_1w : BandChanges, price_change_1m : BandChanges,
     price_change_3m : BandChanges]

\* Lines 300-320.
BaseSentiment ==
    /\ fn_in.tag = "band"
    /\ fn_out = Pending
    /\ fn_out' = [tag |-> "band",
                  weighted_performance |-> weighted_performance(fn_in),
                  base_sentiment |-> base_sentiment(weighted_performance(fn_in))]
    /\ UNCHANGED <<riskVars, combVars, histVars, sentVars, hyVars, fn_in, seqVars, rateVars>>

-----------------------------------------------------------------------------
(* HistoricalPredictor.predict row by row: scaling, windows, the 80/20      *)
(* split, evaluation and the autoregressive forecast.  A feature row is a   *)
(* tuple whose first column is Close; one further column stands for the     *)
(* other features.                                                          *)

MaxSeqRows == 36

column_values(data, c) == {data[r][c] : r \in 1..Len(data)}
column_min(data, c) == CHOOSE x \in column_values(data, c) : \A z \in column_values(data, c) : RLe(x, z)
column_max(data, c) == CHOOSE x \in column_values(data, c) : \A z \in column_values(data, c) : RGe(x, z)

\* MinMaxScaler: each column is mapped onto [0, 1] by its own minimum and
\* range (a constant column keeps scale 1).
min_max_scale(x, lo, hi) ==
    IF hi = lo THEN RSub(x, lo) ELSE RDiv(RSub(x, lo), RSub(hi, lo))

fit_transform(data) ==
    LET lo == [c \in 1..Len(data[1]) |-> column_min(data, c)]
        hi == [c \in 1..Len(data[1]) |-> column_max(data, c)]
    IN  [r \in 1..Len(data) |-> [c \in 1..Len(data[r]) |-> min_max_scale(data[r][c], lo[c], hi[c])]]

create_sequences_X(data, sequence_length) ==
    [k \in 1..Max(Len(data) - sequence_length, 0) |-> SubSeq(data, k, k + sequence_length - 1)]

create_sequences_y_inside(data, sequence_length) ==
    [k \in 1..Max(Len(data) - sequence_length, 0) |-> data[k + sequence_length - 1][1]]

create_sequences_y(data, sequence_length) ==
    [k \in 1..Max(Len(data) - sequence_length, 0) |-> data[k + sequence_length][1]]

mean_absolute_error(y_true, y_pred) ==
    RDiv(SumSeq([i \in 1..Len(y_true) |-> RAbs(RSub(y_true[i], y_pred[i]))]), I(Len(y_true)))

mean_squared_error(y_true, y_pred) ==
    RDiv(SumSeq([i \in 1..Len(y_true) |-> RMul(RSub(y_true[i], y_pred[i]), RSub(y_true[i], y_pred[i]))]), I(Len(y_true)))

\* The feature rows of n bars: closes rise by one a bar, the other column
\* falls.
SeqRows(n) == [r \in 1..n |-> <<I(100 + r), I(1000 - 10 * r)>>]
SeqRowCounts == {0, SequenceLength, SequenceLength + 1, SequenceLength + 2, MaxSeqRows}
\* What the trained network adds to each evaluation label.
TestErrors == {I(0), Rat(1, 20)}

SeqInputs ==
    UNION {[symbol : Symbols, usd_inr : {I(83)}, data : {SeqRows(n) : n \in SeqRowCounts}, days : {d}, net_out : [1..d -> NetOutputs], test_error : TestErrors, fit_ok : BOOLEAN, last_date : {100}] : d \in 1..MaxDays}

SeqReturn(value) ==
    /\ seq_out' = value
    /\ seq_pc' = "done"

\* scaled_data = self.scaler.fit_transform(data); no rows raise.
SeqFitTransform ==
    /\ seq_pc = "fit_transform"
    /\ IF Len(seq_in.data) = 0
       THEN SeqReturn(NoneValue) /\ UNCHANGED seq_local
       ELSE /\ seq_local' = [scaled_data |-> fit_transform(seq_in.data)]
            /\ seq_pc' = "create_sequences"
            /\ UNCHANGED seq_out
    /\ UNCHANGED <<riskVars, combVars, histVars, sentVars, hyVars, fnVars, rateVars, seq_in>>

SeqCreateSequences ==
    /\ seq_pc = "create_sequences"
    /\ LET X == create_sequences_X(seq_local.scaled_data, SequenceLength)
           y == create_sequences_y(seq_local.scaled_data, SequenceLength)
       IN  IF Len(X) = 0
           THEN SeqReturn(NoneValue) /\ UNCHANGED seq_local
           ELSE /\ seq_local' = [X |-> X, y |-> y] @@ seq_local
                /\ seq_pc' = "split"
                /\ UNCHANGED seq_out
    /\ UNCHANGED <<riskVars, combVars, histVars, sentVars, hyVars, fnVars, rateVars, seq_in>>

SeqSplit ==
    /\ seq_pc = "split"
    /\ LET X == seq_local.X
           y == seq_local.y
           split == (8 * Len(X)) \div 10
       IN  seq_local' = [X_train |-> SubSeq(X, 1, split), X_test |-> SubSeq(X, split + 1, Len(X)), y_train |-> SubSeq(y, 1, split), y_test |-> SubSeq(y, split + 1, Len(y))] @@ seq_local
    /\ seq_pc' = "fit"
    /\ UNCHANGED <<riskVars, combVars, histVars, sentVars, hyVars, fnVars, rateVars, seq_in, seq_out>>

\* model.fit raises on an empty training set, or for the library's own
\* reasons.
SeqFit ==
    /\ seq_pc = "fit"
    /\ IF Len(seq_local.X_train) = 0 \/ ~seq_in.fit_ok
       THEN SeqReturn(NoneValue)
       ELSE seq_pc' = "evaluate" /\ UNCHANGED seq_out
    /\ UNCHANGED <<riskVars, combVars, histVars, sentVars, hyVars, fnVars, rateVars, seq_in, seq_local>>

SeqEvaluate ==
    /\ seq_pc = "evaluate"
    /\ LET y_test == seq_local.y_test
           y_pred == [i \in 1..Len(y_test) |-> RAdd(y_test[i], seq_in.test_error)]
           mae == mean_absolute_error(y_test, y_pred)
           mse == mean_squared_error(y_test, y_pred)
       IN  seq_local' = [y_pred |-> y_pred, mae |-> mae, rmse |-> RSqrt(mse)] @@ seq_local
    /\ seq_pc' = "last_sequence"
    /\ UNCHANGED <<riskVars, combVars, histVars, sentVars, hyVars, fnVars, rateVars, seq_in, seq_out>>

SeqLastSequence ==
    /\ seq_pc = "last_sequence"
    /\ seq_local' = [last_sequence |-> seq_local.X[Len(seq_local.X)], future_predictions |-> <<>>] @@ seq_local
    /\ seq_pc' = "forecast"
    /\ UNCHANGED <<riskVars, combVars, histVars, sentVars, hyVars, fnVars, rateVars, seq_in, seq_out>>

SeqForecastStep_growing ==
    /\ seq_pc = "forecast"
    /\ Len(seq_local.future_predictions) < seq_in.days
    /\ LET last_sequence == seq_local.last_sequence
           next_pred == seq_in.net_out[Len(seq_local.future_predictions) + 1]
           new_row == [last_sequence[Len(last_sequence)] EXCEPT ![1] = next_pred]
       IN  seq_local' = [seq_local EXCEPT !.last_sequence = Append(last_sequence, new_row), !.future_predictions = Append(@, next_pred)]
    /\ UNCHANGED <<riskVars, combVars, histVars, sentVars, hyVars, fnVars, rateVars, seq_in, seq_pc, seq_out>>

SeqForecastStep ==
    /\ seq_pc = "forecast"
    /\ Len(seq_local.future_predictions) < seq_in.days
    /\ LET last_sequence == seq_local.last_sequence
           next_pred == seq_in.net_out[Len(seq_local.future_predictions) + 1]
           new_row == [last_sequence[Len(last_sequence)] EXCEPT ![1] = next_pred]
       IN  seq_local' = [seq_local EXCEPT !.last_sequence = Append(Tail(last_sequence), new_row), !.future_predictions = Append(@, next_pred)]
    /\ UNCHANGED <<riskVars, combVars, histVars, sentVars, hyVars, fnVars, rateVars, seq_in, seq_pc, seq_out>>

SeqResult ==
    /\ seq_pc = "forecast"
    /\ Len(seq_local.future_predictions) = seq_in.days
    /\ LET data == seq_in.data
           predictions_denorm == [i \in 1..seq_in.days |-> inverse_transform(seq_local.future_predictions[i], column_min(data, 1), column_max(data, 1))]
           current_price == data[Len(data)][1]
           mae == seq_local.mae
           confidence == IF RGt(current_price, I(0)) THEN RMax(I(0), RMin(I(100), RMul(RSub(I(1), RDiv(mae, current_price)), I(100)))) ELSE I(50)
       IN  SeqReturn([tag |-> "dict", success |-> TRUE, prediction_dates |-> [i \in 1..seq_in.days |-> seq_in.last_date + i], predictions |-> convert_prices_array_to_inr(predictions_denorm, seq_in.symbol, seq_in.usd_inr), mae |-> convert_price_to_inr(mae, seq_in.symbol, seq_in.usd_inr), rmse |-> convert_price_to_inr(seq_local.rmse, seq_in.symbol, seq_in.usd_inr), confidence |-> confidence, current_price |-> convert_price_to_inr(current_price, seq_in.symbol, seq_in.usd_inr), currency |-> "INR"])
    /\ UNCHANGED <<riskVars, combVars, histVars, sentVars, hyVars, fnVars, rateVars, seq_in, seq_local>>

SeqNext ==
    \/ SeqFitTransform
    \/ SeqCreateSequences
    \/ SeqSplit
    \/ SeqFit
    \/ SeqEvaluate
    \/ SeqLastSequence
    \/ SeqForecastStep
    \/ SeqResult

-----------------------------------------------------------------------------
(* Lines 296-333 of HybridPredictor.predict applied to two sub-results by   *)
(* themselves, the empty curves included.                                   *)

SentimentConfidences == {I(30), Rat(125, 2), I(95)}

MeasureInputs ==
    [mae : CombMaeValues, confidence : SentimentConfidences, historical_predictions : Curves, sentiment_predictions : Curves, current_price : {I(100)}, today : {100}]

CombineAndMeasure ==
    /\ fn_in.tag = "measure"
    /\ fn_out = Pending
    /\ fn_out' = [tag |-> "measure"] @@ combine_and_measure([mae |-> fn_in.mae, predictions |-> fn_in.historical_predictions, current_price |-> fn_in.current_price], [confidence |-> fn_in.confidence, predictions |-> fn_in.sentiment_predictions], fn_in.today)
    /\ UNCHANGED <<riskVars, combVars, histVars, sentVars, hyVars, fn_in, seqVars, rateVars>>

-----------------------------------------------------------------------------
(* models/currency_utils.py: the module-level exchange-rate cache and the   *)
(* request threads that call get_usd_to_inr_rate.  Times are in seconds.    *)
(* app.py keeps a copy of the same function with a 7200 s lifetime.         *)

RateTtlSeconds == 3600
FallbackRate == 83
MaxClock == 7200

Callers == {"t1", "t2"}

SourceFails == [tag |-> "fails"]
SourceGives(value) == [tag |-> "gives", value |-> value]

sane_rate(rate) == RGt(rate, I(70)) /\ RLt(rate, I(100))

\* What the four sources answer during one fetch: a quote, or nothing
\* usable (an exception, an empty frame, a bad status, a missing key).
\* The second source quotes INR=X, whose close is inverted.
source_rate(replies, k) ==
    IF k = 2 THEN RDiv(I(1), replies[k].value) ELSE replies[k].value

RECURSIVE fetch_from_unchecked(_, _)
fetch_from_unchecked(replies, k) ==
    IF k > Len(replies) THEN I(FallbackRate)
    ELSE IF replies[k].tag = "gives" THEN source_rate(replies, k)
    ELSE fetch_from_unchecked(replies, k + 1)

RECURSIVE fetch_from(_, _)
fetch_from(replies, k) ==
    IF k > Len(replies) THEN I(FallbackRate)
    ELSE IF replies[k].tag = "gives" /\ sane_rate(source_rate(replies, k)) THEN source_rate(replies, k)
    ELSE fetch_from(replies, k + 1)

fetch_live_exchange_rate_unchecked(replies) == fetch_from_unchecked(replies, 1)

fetch_live_exchange_rate(replies) == fetch_from(replies, 1)

every_source_fails(replies) ==
    \A k \in 1..Len(replies) : replies[k].tag = "fails" \/ ~sane_rate(source_rate(replies, k))

SourceReplies ==
    {<<SourceGives(I(84)), SourceFails, SourceFails, SourceFails>>,
     <<SourceFails, SourceGives(I(84)), SourceGives(I(85)), SourceFails>>,
     <<SourceGives(I(60)), SourceFails, SourceFails, SourceGives(I(85))>>,
     <<SourceGives(I(100)), SourceGives(Rat(1, 84)), SourceFails, SourceFails>>,
     <<SourceFails, SourceFails, SourceFails, SourceFails>>}

IdleLocal == [current_time |-> 0, rate |-> NoneValue, all_failed |-> FALSE]

\* A request thread enters get_usd_to_inr_rate: current_time = datetime.now().
RateCall(t) ==
    /\ rate_pc[t] \in {"idle", "done"}
    /\ rate_pc' = [rate_pc EXCEPT ![t] = "check"]
    /\ rate_local' = [rate_local EXCEPT ![t] = [IdleLocal EXCEPT !.current_time = clock]]
    /\ rate_ret' = [rate_ret EXCEPT ![t] = Pending]
    /\ UNCHANGED <<riskVars, combVars, histVars, sentVars, hyVars, fnVars, seqVars, USD_TO_INR_RATE, LAST_RATE_UPDATE, clock, fetched>>

\* should_update, lines 69-73.
RateCheck(t) ==
    /\ rate_pc[t] = "check"
    /\ LET should_update ==
               \/ USD_TO_INR_RATE = NoneValue
               \/ LAST_RATE_UPDATE = NoneValue
               \/ rate_local[t].current_time - LAST_RATE_UPDATE.at > RateTtlSeconds
       IN  rate_pc' = [rate_pc EXCEPT ![t] = IF should_update THEN "fetch" ELSE "return"]
    /\ UNCHANGED <<riskVars, combVars, histVars, sentVars, hyVars, fnVars, seqVars, USD_TO_INR_RATE, LAST_RATE_UPDATE, clock, rate_local, rate_ret, fetched>>

\* The call fetch_live_exchange_rate() of line 77 returns; it never raises,
\* every source being wrapped in its own try/except.
RateFetch(t) ==
    /\ rate_pc[t] = "fetch"
    /\ \E replies \in SourceReplies :
        /\ rate_local' = [rate_local EXCEPT ![t].rate = fetch_live_exchange_rate(replies), ![t].all_failed = every_source_fails(replies)]
        /\ fetched' = fetched \cup {fetch_live_exchange_rate(replies)}
    /\ rate_pc' = [rate_pc EXCEPT ![t] = "store_rate"]
    /\ UNCHANGED <<riskVars, combVars, histVars, sentVars, hyVars, fnVars, seqVars, USD_TO_INR_RATE, LAST_RATE_UPDATE, clock, rate_ret>>

\* USD_TO_INR_RATE = <the value fetched>, line 77.
RateStoreRate(t) ==
    /\ rate_pc[t] = "store_rate"
    /\ USD_TO_INR_RATE' = rate_local[t].rate
    /\ rate_pc' = [rate_pc EXCEPT ![t] = "store_time"]
    /\ UNCHANGED <<riskVars, combVars, histVars, sentVars, hyVars, fnVars, seqVars, LAST_RATE_UPDATE, clock, rate_local, rate_ret, fetched>>

\* LAST_RATE_UPDATE = current_time, line 78.
RateStoreTime(t) ==
    /\ rate_pc[t] = "store_time"
    /\ LAST_RATE_UPDATE' = [tag |-> "datetime", at |-> rate_local[t].current_time]
    /\ rate_pc' = [rate_pc EXCEPT ![t] = "return"]
    /\ UNCHANGED <<riskVars, combVars, histVars, sentVars, hyVars, fnVars, seqVars, USD_TO_INR_RATE, clock, rate_local, rate_ret, fetched>>

\* return USD_TO_INR_RATE, line 83.
RateReturn(t) ==
    /\ rate_pc[t] = "return"
    /\ rate_ret' = [rate_ret EXCEPT ![t] = USD_TO_INR_RATE]
    /\ rate_pc' = [rate_pc EXCEPT ![t] = "done"]
    /\ UNCHANGED <<riskVars, combVars, histVars, sentVars, hyVars, fnVars, seqVars, USD_TO_INR_RATE, LAST_RATE_UPDATE, clock, rate_local, fetched>>

\* Half an hour passes.
Tick ==
    /\ clock + 1800 <= MaxClock
    /\ clock' = clock + 1800
    /\ UNCHANGED <<riskVars, combVars, histVars, sentVars, hyVars, fnVars, seqVars, USD_TO_INR_RATE, LAST_RATE_UPDATE, rate_pc, rate_local, rate_ret, fetched>>

RateNext ==
    \/ \E t \in Callers : RateCall(t)
    \/ \E t \in Callers : RateCheck(t)
    \/ \E t \in Callers : RateFetch(t)
    \/ \E t \in Callers : RateStoreRate(t)
    \/ \E t \in Callers : RateStoreTime(t)
    \/ \E t \in Callers : RateReturn(t)
    \/ Tick

-----------------------------------------------------------------------------
(* Specifications: the hybrid forecast, and one per operation under study. *)

InitRisk ==
    /\ risk_in \in RiskInputs
    /\ risk_out = Pending
    /\ comb_in = Pending
    /\ comb_out = Pending
    /\ hist_in = Pending
    /\ hist_out = Pending
    /\ sent_in = Pending
    /\ sent_out = Pending
    /\ hy_in = Pending
    /\ hy_pc = "idle"
    /\ hy_local = Pending
    /\ hy_steps = {}
    /\ hy_out = Pending
    /\ fn_in = Pending
    /\ fn_out = Pending
    /\ seq_in = Pending
    /\ seq_pc = "idle"
    /\ seq_local = Pending
    /\ seq_out = Pending
    /\ USD_TO_INR_RATE = Pending
    /\ LAST_RATE_UPDATE = Pending
    /\ clock = 0
    /\ rate_pc = Pending
    /\ rate_local = Pending
    /\ rate_ret = Pending
    /\ fetched = {}

InitCombine ==
    /\ comb_in \in CombInputs
    /\ comb_out = Pending
    /\ risk_in = Pending
    /\ risk_out = Pending
    /\ hist_in = Pending
    /\ hist_out = Pending
    /\ sent_in = Pending
    /\ sent_out = Pending
    /\ hy_in = Pending
    /\ hy_pc = "idle"
    /\ hy_local = Pending
    /\ hy_steps = {}
    /\ hy_out = Pending
    /\ fn_in = Pending
    /\ fn_out = Pending
    /\ seq_in = Pending
    /\ seq_pc = "idle"
    /\ seq_local = Pending
    /\ seq_out = Pending
    /\ USD_TO_INR_RATE = Pending
    /\ LAST_RATE_UPDATE = Pending
    /\ clock = 0
    /\ rate_pc = Pending
    /\ rate_local = Pending
    /\ rate_ret = Pending
    /\ fetched = {}

InitHistorical ==
    /\ hist_in \in HistInputs
    /\ hist_out = Pending
    /\ risk_in = Pending
    /\ risk_out = Pending
    /\ comb_in = Pending
    /\ comb_out = Pending
    /\ sent_in = Pending
    /\ sent_out = Pending
    /\ hy_in = Pending
    /\ hy_pc = "idle"
    /\ hy_local = Pending
    /\ hy_steps = {}
    /\ hy_out = Pending
    /\ fn_in = Pending
    /\ fn_out = Pending
    /\ seq_in = Pending
    /\ seq_pc = "idle"
    /\ seq_local = Pending
    /\ seq_out = Pending
    /\ USD_TO_INR_RATE = Pending
    /\ LAST_RATE_UPDATE = Pending
    /\ clock = 0
    /\ rate_pc = Pending
    /\ rate_local = Pending
    /\ rate_ret = Pending
    /\ fetched = {}

InitSentiment ==
    /\ sent_in \in SentInputs
    /\ sent_out = Pending
    /\ risk_in = Pending
    /\ risk_out = Pending
    /\ comb_in = Pending
    /\ comb_out = Pending
    /\ hist_in = Pending
    /\ hist_out = Pending
    /\ hy_in = Pending
    /\ hy_pc = "idle"
    /\ hy_local = Pending
    /\ hy_steps = {}
    /\ hy_out = Pending
    /\ fn_in = Pending
    /\ fn_out = Pending
    /\ seq_in = Pending
    /\ seq_pc = "idle"
    /\ seq_local = Pending
    /\ seq_out = Pending
    /\ USD_TO_INR_RATE = Pending
    /\ LAST_RATE_UPDATE = Pending
    /\ clock = 0
    /\ rate_pc = Pending
    /\ rate_local = Pending
    /\ rate_ret = Pending
    /\ fetched = {}

InitPercentChange ==
    /\ fn_in \in {[tag |-> "change"] @@ c : c \in ChangeInputs}
    /\ fn_out = Pending
    /\ risk_in = Pending
    /\ risk_out = Pending
    /\ comb_in = Pending
    /\ comb_out = Pending
    /\ hist_in = Pending
    /\ hist_out = Pending
    /\ sent_in = Pending
    /\ sent_out = Pending
    /\ hy_in = Pending
    /\ hy_local = Pending
    /\ hy_out = Pending
    /\ hy_pc = "idle"
    /\ hy_steps = {}
    /\ seq_in = Pending
    /\ seq_pc = "idle"
    /\ seq_local = Pending
    /\ seq_out = Pending
    /\ USD_TO_INR_RATE = Pending
    /\ LAST_RATE_UPDATE = Pending
    /\ clock = 0
    /\ rate_pc = Pending
    /\ rate_local = Pending
    /\ rate_ret = Pending
    /\ fetched = {}

\* The module has just been imported; no request has come in yet.
InitRate ==
    /\ fn_in = Pending
    /\ fn_out = Pending
    /\ risk_in = Pending
    /\ risk_out = Pending
    /\ comb_in = Pending
    /\ comb_out = Pending
    /\ hist_in = Pending
    /\ hist_out = Pending
    /\ sent_in = Pending
    /\ sent_out = Pending
    /\ hy_in = Pending
    /\ hy_local = Pending
    /\ hy_out = Pending
    /\ hy_pc = "idle"
    /\ hy_steps = {}
    /\ seq_in = Pending
    /\ seq_pc = "idle"
    /\ seq_local = Pending
    /\ seq_out = Pending
    /\ USD_TO_INR_RATE = NoneValue
    /\ LAST_RATE_UPDATE = NoneValue
    /\ clock = 0
    /\ rate_pc = [t \in Callers |-> "idle"]
    /\ rate_local = [t \in Callers |-> IdleLocal]
    /\ rate_ret = [t \in Callers |-> Pending]
    /\ fetched = {}

InitSequences ==
    /\ fn_in = Pending
    /\ fn_out = Pending
    /\ risk_in = Pending
    /\ risk_out = Pending
    /\ comb_in = Pending
    /\ comb_out = Pending
    /\ hist_in = Pending
    /\ hist_out = Pending
    /\ sent_in = Pending
    /\ sent_out = Pending
    /\ hy_in = Pending
    /\ hy_local = Pending
    /\ hy_out = Pending
    /\ hy_pc = "idle"
    /\ hy_steps = {}
    /\ seq_in \in SeqInputs
    /\ seq_pc = "fit_transform"
    /\ seq_local = Pending
    /\ seq_out = Pending
    /\ USD_TO_INR_RATE = Pending
    /\ LAST_RATE_UPDATE = Pending
    /\ clock = 0
    /\ rate_pc = Pending
    /\ rate_local = Pending
    /\ rate_ret = Pending
    /\ fetched = {}

InitMeasure ==
    /\ fn_in \in {[tag |-> "measure"] @@ c : c \in MeasureInputs}
    /\ fn_out = Pending
    /\ risk_in = Pending
    /\ risk_out = Pending
    /\ comb_in = Pending
    /\ comb_out = Pending
    /\ hist_in = Pending
    /\ hist_out = Pending
    /\ sent_in = Pending
    /\ sent_out = Pending
    /\ hy_in = Pending
    /\ hy_local = Pending
    /\ hy_out = Pending
    /\ hy_pc = "idle"
    /\ hy_steps = {}
    /\ seq_in = Pending
    /\ seq_pc = "idle"
    /\ seq_local = Pending
    /\ seq_out = Pending
    /\ USD_TO_INR_RATE = Pending
    /\ LAST_RATE_UPDATE = Pending
    /\ clock = 0
    /\ rate_pc = Pending
    /\ rate_local = Pending
    /\ rate_ret = Pending
    /\ fetched = {}

InitBand ==
    /\ fn_in \in {[tag |-> "band"] @@ c : c \in BandInputs}
    /\ fn_out = Pending
    /\ risk_in = Pending
    /\ risk_out = Pending
    /\ comb_in = Pending
    /\ comb_out = Pending
    /\ hist_in = Pending
    /\ hist_out = Pending
    /\ sent_in = Pending
    /\ sent_out = Pending
    /\ hy_in = Pending
    /\ hy_local = Pending
    /\ hy_out = Pending
    /\ hy_pc = "idle"
    /\ hy_steps = {}
    /\ seq_in = Pending
    /\ seq_pc = "idle"
    /\ seq_local = Pending
    /\ seq_out = Pending
    /\ USD_TO_INR_RATE = Pending
    /\ LAST_RATE_UPDATE = Pending
    /\ clock = 0
    /\ rate_pc = Pending
    /\ rate_local = Pending
    /\ rate_ret = Pending
    /\ fetched = {}

InitRsi ==
    /\ fn_in \in {[tag |-> "rsi"] @@ c : c \in RsiInputs}
    /\ fn_out = Pending
    /\ risk_in = Pending
    /\ risk_out = Pending
    /\ comb_in = Pending
    /\ comb_out = Pending
    /\ hist_in = Pending
    /\ hist_out = Pending
    /\ sent_in = Pending
    /\ sent_out = Pending
    /\ hy_in = Pending
    /\ hy_local = Pending
    /\ hy_out = Pending
    /\ hy_pc = "idle"
    /\ hy_steps = {}
    /\ seq_in = Pending
    /\ seq_pc = "idle"
    /\ seq_local = Pending
    /\ seq_out = Pending
    /\ USD_TO_INR_RATE = Pending
    /\ LAST_RATE_UPDATE = Pending
    /\ clock = 0
    /\ rate_pc = Pending
    /\ rate_local = Pending
    /\ rate_ret = Pending
    /\ fetched = {}

\* The hybrid forecast of one symbol, from the call to its return.
Init ==
    /\ hy_in \in HyInputs
    /\ hy_pc = "historical"
    /\ hy_local = Pending
    /\ hy_steps = {}
    /\ hy_out = Pending
    /\ fn_in = Pending
    /\ fn_out = Pending
    /\ risk_in = Pending
    /\ risk_out = Pending
    /\ comb_in = Pending
    /\ comb_out = Pending
    /\ hist_in = Pending
    /\ hist_out = Pending
    /\ sent_in = Pending
    /\ sent_out = Pending
    /\ seq_in = Pending
    /\ seq_pc = "idle"
    /\ seq_local = Pending
    /\ seq_out = Pending
    /\ USD_TO_INR_RATE = Pending
    /\ LAST_RATE_UPDATE = Pending
    /\ clock = 0
    /\ rate_pc = Pending
    /\ rate_local = Pending
    /\ rate_ret = Pending
    /\ fetched = {}

Next ==
    \/ HyHistorical
    \/ HySentiment
    \/ HyCheck
    \/ HyCombine
    \/ HyRisk
    \/ HySector
    \/ HyReturn

Spec == Init /\ [][Next]_vars

SpecRisk == InitRisk /\ [][CalculateRiskScore]_vars
SpecCombine == InitCombine /\ [][CombinePredictions]_vars
SpecHistorical == InitHistorical /\ [][HistoricalPredict]_vars
SpecSentiment == InitSentiment /\ [][Analyze]_vars
SpecPercentChange == InitPercentChange /\ [][PercentChange]_vars
SpecRsi == InitRsi /\ [][PrepareFeaturesRsi]_vars
SpecBand == InitBand /\ [][BaseSentiment]_vars
SpecSequences == InitSequences /\ [][SeqNext]_vars
SpecMeasure == InitMeasure /\ [][CombineAndMeasure]_vars
SpecRate == InitRate /\ [][RateNext]_vars

-----------------------------------------------------------------------------
(* Properties of calculate_risk_score and combine_predictions.             *)

RInRange(x, lo, hi) == RLe(I(lo), x) /\ RLe(x, I(hi))

ClaimedRecommendation(score) ==
    IF RLt(score, I(25)) THEN <<"Low Risk", "Strong Buy">>
    ELSE IF RLt(score, I(40)) THEN <<"Low-Medium Risk", "Buy">>
    ELSE IF RLt(score, I(55)) THEN <<"Medium Risk", "Hold">>
    ELSE IF RLt(score, I(70)) THEN <<"Medium-High Risk", "Sell">>
    ELSE <<"High Risk", "Strong Sell">>

\* Inputs HybridPredictor.predict can pass on: a score the Sentiment Scorer
\* clamps to [0, 100] and a confidence it clamps to [30, 95].
RiskInputsFromPredict ==
    /\ RGe(risk_in.mae, I(0))
    /\ RInRange(risk_in.sentiment_score, 0, 100)
    /\ RInRange(risk_in.confidence, 30, 95)

\* C2: the risk level and recommendation of a result are the band of the
\* risk_score reported in that same result (stated for the inputs predict
\* passes on).
C2_BandOfReportedScore ==
    (risk_out.tag = "dict" /\ RiskInputsFromPredict) =>
        <<risk_out.risk_level, risk_out.recommendation>> =
            ClaimedRecommendation(risk_out.risk_score)

CombBothEmpty ==
    comb_in.historical_predictions = <<>> /\ comb_in.sentiment_predictions = <<>>
CombBothPresent ==
    comb_in.historical_predictions # <<>> /\ comb_in.sentiment_predictions # <<>>
CombOneEmpty == ~CombBothEmpty /\ ~CombBothPresent

\* C3: for MAE >= 0 and confidence >= 0 the two returned weights are each
\* in [0, 1] and sum to 1, whichever curves are empty.
C3_WeightsSumToOne ==
    comb_out.tag = "tuple" =>
        /\ RInRange(comb_out.historical_weight, 0, 1)
        /\ RInRange(comb_out.sentiment_weight, 0, 1)
        /\ RAdd(comb_out.historical_weight, comb_out.sentiment_weight) = I(1)

\* The weights were computed (not the 0 / 1.0 literals) and are both
\* strictly inside (0, 1): both curves empty, so the computed pair is returned.
C3_Witness ==
    /\ comb_out.tag = "tuple"
    /\ CombBothEmpty
    /\ RLt(I(0), comb_out.sentiment_weight)
    /\ RLt(comb_out.sentiment_weight, comb_out.historical_weight)

\* |x - y| <= 1/200: x is y rounded to 2 decimals.
IsRounding2Of(x, y) == RLe(RAbs(RSub(x, y)), Rat(1, 200))

\* C4: with both curves non-empty the result has min(len(A), len(B)) points,
\* each the weighted average (to 2 decimals) of the two points at its index
\* under the returned weights; with exactly one curve empty the result is the
\* other curve unchanged, that side weighing 1 and the empty side 0.
C4_CombinedCurve ==
    comb_out.tag = "tuple" =>
        LET A == comb_in.historical_predictions
            B == comb_in.sentiment_predictions
            R == comb_out.predictions
        IN  /\ CombBothPresent =>
                /\ Len(R) = Min(Len(A), Len(B))
                /\ \A i \in 1..Len(R) :
                      IsRounding2Of(R[i],
                          RAdd(RMul(A[i], comb_out.historical_weight),
                               RMul(B[i], comb_out.sentiment_weight)))
            /\ (A = <<>> /\ B # <<>>) =>
                /\ R = B
                /\ comb_out.historical_weight = I(0)
                /\ comb_out.sentiment_weight = I(1)
            /\ (B = <<>> /\ A # <<>>) =>
                /\ R = A
                /\ comb_out.historical_weight = I(1)
                /\ comb_out.sentiment_weight = I(0)

\* Two curves of different lengths and different prices were combined.
C4_Witness ==
    /\ comb_out.tag = "tuple"
    /\ Len(comb_in.historical_predictions) = 1
    /\ Len(comb_in.sentiment_predictions) = 2
    /\ comb_in.historical_predictions[1] # comb_in.sentiment_predictions[1]
    /\ Len(comb_out.predictions) = 1
    /\ comb_out.predictions[1] # comb_in.historical_predictions[1]

-----------------------------------------------------------------------------
(* Properties of HistoricalPredictor.predict.                              *)

\* The history is empty or gives fewer than L + 1 feature rows.
HistInsufficient == hist_in.bars - (Lookback - 1) < SequenceLength + 1

-----------------------------------------------------------------------------
(* Properties of SentimentAnalyzer.analyze.                                *)

SentSuccess == sent_out.tag = "dict" /\ sent_out.success
\* Only the Path A result carries total_articles.
SentPathA == SentSuccess /\ "total_articles" \in DOMAIN sent_out
SentPathB == SentSuccess /\ "total_articles" \notin DOMAIN sent_out

\* C5: every successful result, on either path, has sentiment_score in
\* [0, 100] and polarity in [-1, 1].
C5_ScoreAndPolarityRanges ==
    SentSuccess =>
        /\ RInRange(sent_out.sentiment_score, 0, 100)
        /\ RInRange(sent_out.polarity, -1, 1)

\* All five Path B indicators vote positive (weights summing to 1, so the
\* raw score is 150) and the reported score is 100.
C5_Witness ==
    /\ SentPathB
    /\ sent_out.positive_count = 5
    /\ sent_out.sentiment_score = I(100)

\* C6: Path B is taken exactly when the news list is empty, Path A
\* otherwise; the reported confidence is within [30, 85] on Path B and
\* within [40, 95] on Path A.
C6_PathAndConfidence ==
    SentSuccess =>
        /\ SentPathB <=> (sent_in.news = <<>>)
        /\ SentPathB => RInRange(sent_out.confidence, 30, 85)
        /\ SentPathA => RInRange(sent_out.confidence, 40, 95)

\* A short, volatile history without news: the blend is below 30 and the
\* reported confidence is the lower clamp.
C6_Witness ==
    /\ SentPathB
    /\ sent_in.bars = 21
    /\ sent_in.volatility = I(20)
    /\ sent_out.confidence = I(30)

\* C8: whatever the history length (0 bars included) and the quoted price,
\* with or without articles, analyze returns a success result.
C8_NeverFailsOnShortHistory ==
    (sent_out # Pending /\ sent_in.fetch_ok) =>
        /\ sent_out.success
        /\ {"sentiment_score", "polarity", "confidence", "predictions"}
              \subseteq DOMAIN sent_out

-----------------------------------------------------------------------------
(* The hybrid forecast's handling of failures                              *)

HyDone == hy_pc = "done"
HistoricalFailed ==
    \/ hy_local.historical_result.tag = "None"
    \/ ~hy_local.historical_result.success
SentimentFailed == ~hy_local.sentiment_result.success
AfterCheck == {"combine", "risk", "explain", "sector", "peers"}

\* C9: predict returns success only if both sub-forecasts succeeded; a
\* historical forecast that returned nothing or success:false gives
\* {success: false} naming the historical side, a failed sentiment analysis
\* gives {success: false} naming the sentiment side, and in either case no
\* combination, risk scoring or peer lookup has been performed.
C9_FailFast ==
    HyDone =>
        /\ hy_out.success => ~HistoricalFailed /\ ~SentimentFailed
        /\ HistoricalFailed =>
              /\ hy_out = Failure("Historical prediction failed")
              /\ hy_steps \cap AfterCheck = {}
        /\ ~HistoricalFailed /\ SentimentFailed =>
              /\ hy_out = Failure("Sentiment analysis failed")
              /\ hy_steps \cap AfterCheck = {}

\* Both sub-forecasts failed and predict has returned.
C9_Witness ==
    /\ HyDone
    /\ HistoricalFailed
    /\ SentimentFailed
    /\ hy_out.success = FALSE

\* C10: when both sub-forecasts succeeded, predict returns success with the
\* combined curve and the risk assessment, whatever fails while the sector
\* is looked up or a peer is fetched or estimated.
C10_PeerFailuresAreHarmless ==
    (HyDone /\ ~HistoricalFailed /\ ~SentimentFailed) =>
        /\ hy_out.success
        /\ hy_out.predictions = hy_local.combined_predictions
        /\ hy_out.risk_analysis = hy_local.risk_analysis

-----------------------------------------------------------------------------
(* Degenerate arithmetic                                                   *)

\* C11: every percentage change computed relative to a base price yields
\* the fallback value 0 when that base price is 0, and none yields NaN,
\* Infinity or a division error.
C11_ZeroBaseGivesZero ==
    (fn_in.tag = "change" /\ fn_out # Pending) =>
        /\ fn_out.tag = "num"
        /\ change_base(fn_in) = I(0) => fn_out.v = I(0)

RApprox(x, target, eps) == RLe(RAbs(RSub(x, target)), eps)

\* C12: for a flat price series the RSI computed by prepare_features is
\* approximately 50 on every retained row.
C12_FlatSeriesRsiNearFifty ==
    (fn_in.tag = "rsi" /\ fn_out # Pending /\ fn_in.kind = "flat") =>
        \A r \in DOMAIN fn_out.RSI : RApprox(fn_out.RSI[r], I(50), I(1))

-----------------------------------------------------------------------------
(* The sentiment forecast curve                                            *)

\* The indicators of the path the call takes, and the impact and the curve
\* the sentiment score gives.
SentIndicators ==
    LET p == performance(sent_in)
    IN  IF sent_in.news = <<>> THEN indicators_b(sent_in, p)
        ELSE indicators_a(sent_in, p,
                          RDiv(SumSeq(sent_in.news), I(Len(sent_in.news))))
SentScoreImpact ==
    score_impact(sentiment_score_of(SentIndicators),
                 weighted_performance(performance(sent_in)))
SentScoreCurve ==
    Round2All(convert_prices_array_to_inr(
                  decayed_curve(performance(sent_in).current_price,
                                SentScoreImpact, Rat(4, 100)),
                  sent_in.symbol, sent_in.usd_inr))

\* C13: on both paths the curve analyze returns is the one derived from the
\* sentiment score (impact 0.08 * (score - 50) / 50 plus the momentum term,
\* decayed per day, applied to the current price), it has one point per
\* forecast day, and predicted_change_percent is that curve's initial impact.
C13_CurveFromScore ==
    SentSuccess =>
        /\ Len(sent_out.predictions) = ForecastDays
        /\ sent_out.predictions = SentScoreCurve
        /\ sent_out.predicted_change_percent =
              Round2(RMul(SentScoreImpact, I(100)))

\* The current price a successful result reports, and the deviation of a
\* returned point from it.
WithinTenPercent(price, current) ==
    RLe(RMul(RAbs(RSub(price, current)), I(10)), current)

\* C14: the sentiment impact is at most 8% and the momentum term at most 2%
\* in magnitude, so no point of a returned sentiment curve deviates from
\* the current price by more than 10%, on either path.
C14_ImpactBounds ==
    SentSuccess =>
        /\ RLe(RAbs(sentiment_impact(sentiment_score_of(SentIndicators))),
               Rat(8, 100))
        /\ RLe(RAbs(momentum_impact(weighted_performance(performance(sent_in)))),
               Rat(2, 100))
        /\ \A i \in 1..Len(sent_out.predictions) :
               WithinTenPercent(sent_out.predictions[i], sent_out.current_price)

-----------------------------------------------------------------------------
(* The weighted vote                                                       *)

WeightTotal(indicators) ==
    SumSeq([i \in 1..Len(indicators) |-> indicators[i][2]])

\* C15: on each path the indicator weights used in the vote sum to 1, for
\* every article count.
C15_WeightsNormalized ==
    SentSuccess => WeightTotal(SentIndicators) = I(1)

\* C16: Positive is reported only if the positive sum is the largest,
\* Negative only if the negative sum is the largest, and Neutral only if the
\* neutral sum is at least as large as both other sums.
C16_MajorityClass ==
    SentSuccess =>
        LET positive_score == class_score(SentIndicators, "positive")
            negative_score == class_score(SentIndicators, "negative")
            neutral_score == class_score(SentIndicators, "neutral")
        IN  /\ sent_out.overall_sentiment = "Positive" =>
                  RGt(positive_score, negative_score)
                  /\ RGt(positive_score, neutral_score)
            /\ sent_out.overall_sentiment = "Negative" =>
                  RGt(negative_score, positive_score)
                  /\ RGt(negative_score, neutral_score)
            /\ sent_out.overall_sentiment = "Neutral" =>
                  RGe(neutral_score, positive_score)
                  /\ RGe(neutral_score, negative_score)

\* C16 as the vote is taken: Positive is reported exactly when the positive
\* sum strictly exceeds both other sums, Negative exactly when the negative
\* sum strictly exceeds both other sums, and Neutral in every other case,
\* a tie of the positive and negative sums above the neutral sum included.
C16_StrictMajorityElseNeutral ==
    SentSuccess =>
        LET positive_score == class_score(SentIndicators, "positive")
            negative_score == class_score(SentIndicators, "negative")
            neutral_score == class_score(SentIndicators, "neutral")
            positive_wins == RGt(positive_score, negative_score)
                             /\ RGt(positive_score, neutral_score)
            negative_wins == RGt(negative_score, positive_score)
                             /\ RGt(negative_score, neutral_score)
        IN  /\ sent_out.overall_sentiment \in {"Positive", "Negative", "Neutral"}
            /\ sent_out.overall_sentiment = "Positive" <=> positive_wins
            /\ sent_out.overall_sentiment = "Negative" <=> negative_wins

\* The positive and negative sums tie above the neutral sum.
C16_Witness ==
    /\ SentSuccess
    /\ class_score(SentIndicators, "positive")
          = class_score(SentIndicators, "negative")
    /\ RGt(class_score(SentIndicators, "positive"),
           class_score(SentIndicators, "neutral"))
    /\ sent_out.overall_sentiment = "Neutral"

\* A history of more than 20 bars whose sampled closes strictly increase.
StrictlyIncreasing ==
    /\ sent_in.bars > 20
    /\ RLt(sent_in.first, sent_in.m20)
    /\ RLt(sent_in.m20, sent_in.m10)
    /\ RLt(sent_in.m10, sent_in.m5)
    /\ RLt(sent_in.m5, sent_in.last)

\* C17: for every strictly increasing close series with no articles the
\* overall sentiment category is Positive or Very Positive, however small
\* the daily increase.
C17_RisingIsPositive ==
    (SentPathB /\ StrictlyIncreasing) =>
        sent_out.overall_sentiment \in {"Positive", "Very Positive"}

\* The rise stays within every indicator's threshold.
GentleRise ==
    LET p == performance(sent_in)
    IN  /\ RLe(p.price_change_1w, I(2))
        /\ RLe(p.price_change_1m, I(5))
        /\ RLe(momentum_10d(sent_in), I(1))

\* C17 as the vote is taken: a strictly increasing series with no articles
\* is never reported Negative; it is reported Neutral when the weekly rise
\* is at most 2%, the monthly rise at most 5% and the 10-day rise at most 1%.
C17_RisingIsNotNegative ==
    (SentPathB /\ StrictlyIncreasing) =>
        /\ sent_out.overall_sentiment \in {"Positive", "Neutral"}
        /\ sent_out.negative_count = 0
        /\ GentleRise => sent_out.overall_sentiment = "Neutral"

\* A gently rising series reported Neutral.
C17_Witness ==
    /\ SentPathB
    /\ StrictlyIncreasing
    /\ GentleRise
    /\ sent_out.overall_sentiment = "Neutral"

-----------------------------------------------------------------------------
(* Path B: the bands of the weighted performance                           *)

BandDone == fn_in.tag = "band" /\ fn_out # Pending

\* C18: a weighted performance >= 15% gives 0.7 and <= -15% gives -0.7, the
\* values exactly +15% and -15% included, and the mapping is non-decreasing.
C18_OuterBandsInclusive ==
    BandDone =>
        /\ RGe(fn_out.weighted_performance, I(15)) =>
              fn_out.base_sentiment = Rat(7, 10)
        /\ RLe(fn_out.weighted_performance, I(-15)) =>
              fn_out.base_sentiment = Rat(-7, 10)
        /\ \A c \in BandInputs :
              RLe(weighted_performance(c), fn_out.weighted_performance) =>
                  RLe(base_sentiment(weighted_performance(c)),
                      fn_out.base_sentiment)

-----------------------------------------------------------------------------
(* Forecast dates                                                          *)

HySuccess == HyDone /\ hy_out.success
StrictlyIncreasingDates(dates) ==
    \A i \in 1..(Len(dates) - 1) : dates[i] < dates[i + 1]

\* C19: every forecast curve returned, by the historical and by the hybrid
\* predictor, has one date per point, strictly increasing dates and a first
\* date that is the day after the last known bar; the hybrid curve's dates
\* agree with those of the sequence forecast it was built from.
C19_DatesFollowLastBar ==
    HySuccess =>
        LET last_bar == hy_historical_call(hy_in).last_date
            historical == hy_out.historical_data
        IN  /\ Len(historical.prediction_dates) = Len(historical.predictions)
            /\ StrictlyIncreasingDates(historical.prediction_dates)
            /\ historical.prediction_dates[1] = last_bar + 1
            /\ Len(hy_out.prediction_dates) = Len(hy_out.predictions)
            /\ StrictlyIncreasingDates(hy_out.prediction_dates)
            /\ hy_out.prediction_dates[1] = last_bar + 1
            /\ \A i \in 1..Len(hy_out.prediction_dates) :
                  hy_out.prediction_dates[i] = historical.prediction_dates[i]

\* C20: for every horizon H >= 1, when both sub-forecasts succeed
\* predict(days=H) returns a combined curve of exactly H points.
C20_CurveHasRequestedLength ==
    HySuccess => Len(hy_out.predictions) = hy_in.days

-----------------------------------------------------------------------------
(* Properties of the row-by-row forecast.                                  *)

SeqSuccess == seq_pc = "done" /\ seq_out.tag = "dict"
SeqAfterSplit == seq_pc \in {"fit", "evaluate", "last_sequence", "forecast"}
PriceOfScaled(v) == inverse_transform(v, column_min(seq_in.data, 1), column_max(seq_in.data, 1))
PriceUnitMae == mean_absolute_error([i \in 1..Len(seq_local.y_test) |-> PriceOfScaled(seq_local.y_test[i])], [i \in 1..Len(seq_local.y_pred) |-> PriceOfScaled(seq_local.y_pred[i])])

\* C21: the reported MAE is the mean absolute difference between the
\* held-out closes and the predicted closes, both in price units, and the
\* confidence is clamp(0, 100, (1 - MAE / current_price) * 100) with that
\* price-unit MAE.
C21_MaeInPriceUnits ==
    SeqSuccess =>
        LET current_price == seq_in.data[Len(seq_in.data)][1]
        IN  /\ seq_out.mae = convert_price_to_inr(PriceUnitMae, seq_in.symbol, seq_in.usd_inr)
            /\ seq_out.confidence = RMax(I(0), RMin(I(100), RMul(RSub(I(1), RDiv(PriceUnitMae, current_price)), I(100))))

\* C25: the window the autoregressive forecast starts from is the
\* SequenceLength most recent feature rows, ending with the row of the last
\* known bar.
C25_StartsFromMostRecentRows ==
    (seq_pc = "forecast" /\ seq_local.future_predictions = <<>>) =>
        LET n == Len(seq_local.scaled_data)
        IN  /\ seq_local.last_sequence = SubSeq(seq_local.scaled_data, n - SequenceLength + 1, n)
            /\ seq_local.last_sequence[SequenceLength] = seq_local.scaled_data[n]

\* C26: each autoregressive step drops the first row of the window and
\* appends the previous last row with only the close replaced by the
\* prediction; the window keeps SequenceLength rows, the training windows
\* are untouched, and the loop ends with exactly `days` predictions.
C26_ForecastStepFrame ==
    [][/\ (seq_pc = "forecast" /\ seq_pc' = "forecast") =>
            LET old == seq_local.last_sequence
                new == seq_local'.last_sequence
                last == old[Len(old)]
                row == new[Len(new)]
            IN  /\ Len(new) = SequenceLength
                /\ SubSeq(new, 1, SequenceLength - 1) = Tail(old)
                /\ Len(row) = Len(last)
                /\ \A c \in 2..Len(last) : row[c] = last[c]
                /\ seq_local'.future_predictions = Append(seq_local.future_predictions, row[1])
                /\ seq_local'.X = seq_local.X
                /\ seq_local'.X_train = seq_local.X_train
                /\ seq_local'.X_test = seq_local.X_test
                /\ seq_local'.scaled_data = seq_local.scaled_data
       /\ (seq_pc = "forecast" /\ seq_pc' = "done") =>
            /\ Len(seq_local.future_predictions) = seq_in.days
            /\ Len(seq_out'.predictions) = seq_in.days]_vars

C26_Witness ==
    /\ SeqSuccess
    /\ seq_in.days = MaxDays
    /\ Len(seq_local.future_predictions) = MaxDays
    /\ Len(seq_local.last_sequence) = SequenceLength

\* C27: window k is rows k .. k+SequenceLength-1 and its label is the close
\* of row k+SequenceLength; the training set is the first floor(0.8 N)
\* windows, the evaluation set the remaining ones, and every training label
\* comes from an earlier bar than every evaluation label.
C27_WindowsAndChronologicalSplit ==
    SeqAfterSplit =>
        LET data == seq_local.scaled_data
            X == seq_local.X
            y == seq_local.y
            N == Len(X)
            s == Len(seq_local.X_train)
        IN  /\ N = Len(data) - SequenceLength
            /\ Len(y) = N
            /\ \A k \in 1..N : X[k] = SubSeq(data, k, k + SequenceLength - 1) /\ y[k] = data[k + SequenceLength][1]
            /\ 10 * s <= 8 * N /\ 8 * N < 10 * (s + 1)
            /\ seq_local.X_train \o seq_local.X_test = X
            /\ seq_local.y_train \o seq_local.y_test = y
            /\ Len(seq_local.y_train) = s
            /\ \A i \in 1..s : \A j \in 1..(N - s) :
                /\ seq_local.y_train[i] = data[i + SequenceLength][1]
                /\ seq_local.y_test[j] = data[s + j + SequenceLength][1]
                /\ i + SequenceLength < s + j + SequenceLength

C27_Witness ==
    /\ seq_pc = "fit"
    /\ Len(seq_local.X_train) >= 2
    /\ Len(seq_local.X_test) >= 2

\* C28: whenever at least SequenceLength + 1 feature rows exist, the 80/20
\* split leaves both the training set and the evaluation set non-empty.
C28_BothSetsNonEmpty ==
    (SeqAfterSplit /\ Len(seq_local.scaled_data) >= SequenceLength + 1) =>
        /\ Len(seq_local.X_train) > 0
        /\ Len(seq_local.X_test) > 0

-----------------------------------------------------------------------------
(* Properties of the overall confidence.                                   *)

MeasureDone == fn_in.tag = "measure" /\ fn_out.tag = "measure"

\* C22: the overall confidence is historical_confidence * historical_weight
\* + sentiment_confidence * sentiment_weight with historical_confidence =
\* 100 / (1 + MAE) and the combiner's own weights; it lies between the two
\* confidences and within [0, 100], also when a curve is empty.
C22_OverallConfidenceIsConvex ==
    MeasureDone =>
        LET c == combine_predictions(fn_in.mae, fn_in.confidence, fn_in.historical_predictions, fn_in.sentiment_predictions)
            hc == RDiv(I(100), RAdd(I(1), fn_in.mae))
            sc == fn_in.confidence
            overall == fn_out.overall_confidence
        IN  /\ fn_out.hist_weight = c.historical_weight
            /\ fn_out.sent_weight = c.sentiment_weight
            /\ overall = RAdd(RMul(hc, fn_out.hist_weight), RMul(sc, fn_out.sent_weight))
            /\ RLe(RMin(hc, sc), overall)
            /\ RLe(overall, RMax(hc, sc))
            /\ RInRange(overall, 0, 100)

C22_Witness ==
    /\ MeasureDone
    /\ fn_in.historical_predictions = <<>>
    /\ fn_in.sentiment_predictions # <<>>
    /\ fn_in.mae = I(40)
    /\ fn_out.overall_confidence = fn_in.confidence

-----------------------------------------------------------------------------
(* Properties of the explanation and the peer context.                     *)

\* C23: in every hybrid result the sentiment sentence of the explanation
\* agrees with the reported sentiment category: the optimism wording only
\* with Positive, the caution wording only with Negative, the balanced
\* wording only with Neutral.
C23_SentimentSentenceMatchesCategory ==
    HySuccess =>
        LET sentence == hy_out.explanations[2]
        IN  /\ sentence[1] = hy_out.sentiment_category
            /\ sentence[2] = "positive news coverage driving optimism" => hy_out.sentiment_category = "Positive"
            /\ sentence[2] = "negative news creating caution" => hy_out.sentiment_category = "Negative"
            /\ sentence[2] = "balanced news coverage" => hy_out.sentiment_category = "Neutral"

SameSymbol(a, b) == Upper(a[1]) = Upper(b[1]) /\ Upper(a[2]) = Upper(b[2])

\* C24: the peer context holds at most 2 peers, all from the table entry of
\* the sector (none for an unknown sector), and never the subject symbol,
\* in whatever letter case the subject symbol was supplied.
C24_PeersExcludeSubject ==
    HySuccess =>
        LET peers == hy_out.sector_analysis
            companies == sector_companies(hy_out.sector)
        IN  /\ Len(peers) <= 2
            /\ \A i \in 1..Len(peers) :
                    /\ \E k \in 1..Len(companies) : companies[k] = peers[i].symbol
                    /\ ~SameSymbol(peers[i].symbol, hy_in.symbol)

-----------------------------------------------------------------------------
(* Properties of the exchange-rate cache.                                  *)

\* C29: once a rate has been cached, a refresh after the lifetime expired
\* in which every source fails leaves the cached rate unchanged; the
\* fallback 83.0 is stored only when nothing was cached before.
C29_FailedRefreshKeepsCachedRate ==
    [][\A t \in Callers :
        (/\ rate_pc[t] = "store_rate"
         /\ rate_pc'[t] = "store_time"
         /\ rate_local[t].all_failed
         /\ \A u \in Callers \ {t} : rate_pc[u] \in {"idle", "done"}
         /\ USD_TO_INR_RATE # NoneValue
         /\ LAST_RATE_UPDATE # NoneValue
         /\ rate_local[t].current_time - LAST_RATE_UPDATE.at > RateTtlSeconds) => USD_TO_INR_RATE' = USD_TO_INR_RATE]_vars

\* C30: under every interleaving of get_usd_to_inr_rate calls each call
\* returns a rate that some fetch returned, strictly between 70 and 100,
\* never an unset value, and the cache is unset or holds a fetched value.
C30_EveryCallReturnsAFetchedRate ==
    /\ \A t \in Callers :
        rate_pc[t] = "done" =>
            /\ rate_ret[t] # NoneValue
            /\ rate_ret[t] \in fetched
            /\ sane_rate(rate_ret[t])
    /\ USD_TO_INR_RATE # NoneValue => USD_TO_INR_RATE \in fetched

C30_Witness ==
    /\ \A t \in Callers : rate_pc[t] = "done"
    /\ rate_local["t1"].rate # NoneValue
    /\ rate_local["t2"].rate # NoneValue
    /\ rate_local["t1"].rate # rate_local["t2"].rate
    /\ rate_local["t1"].current_time = rate_local["t2"].current_time
    /\ rate_ret["t1"] = rate_local["t2"].rate
    /\ rate_ret["t2"] = rate_local["t2"].rate

====
